---------------------------- MODULE Spec2Model ----------------------------
(***************************************************************************)
(* A model of the quickgame match/game lifecycle engine:                   *)
(*   src/server-modular.ts          the coordinator and the gateway        *)
(*   src/games/game-interface.ts    BaseGame                               *)
(*   src/games/game-registry.ts     GameRegistry                           *)
(*   src/games/server/*.ts, src/unnamed/part_003   the four engines        *)
(*                                                                         *)
(* The server runs on one event loop: every socket event handler and every *)
(* timer callback runs to completion, so each is one action.  A timer that *)
(* has been scheduled and not cancelled may fire at any later step.        *)
(*                                                                         *)
(* Match and game ids are random 9-character strings in the code; the      *)
(* model uses the creation index (1, 2, ...) as the id.  activeGames is a  *)
(* Map, which iterates in insertion order, i.e. in increasing id.          *)
(***************************************************************************)
EXTENDS Integers, Sequences, FiniteSets, TLC

VARIABLES
  connected,      \* connection id -> is the socket still connected
  waitingQueue,   \* server-modular.ts:80  sequence of connection ids
  matches,        \* every Match object ever created, by id
  activeMatches,  \* server-modular.ts:81  ids of the Matches in the Map
  playerToMatch,  \* server-modular.ts:84  connection id -> match id, 0 = none
  games,          \* every GameInstance object ever created, by id
  activeGames,    \* server-modular.ts:82  ids of the GameInstances in the Map
  out             \* the socket.emit calls of the last step, in order

vars == <<connected, waitingQueue, matches, activeMatches, playerToMatch,
          games, activeGames, out>>

---------------------------------------------------------------------------
(* Bounds of the model *)

\* GameInstances created in a run
MaxGames == 2
\* Matches created in a run
MaxMatches == 1
\* one-second ticks of the duration timer (the code: ceil(duration / 1000))
DurTicks == 1
\* Matches created in a run of the queue specification
QueueMatches == 2
\* GameInstances created in a run of the tournament specification
TournamentGames == 4

\* the connections (socket ids)
Conns == {"a", "b", "c"}

\* the values Date.now() may return when a click is recorded
ClockVals == {1}

---------------------------------------------------------------------------
(* Program constants *)

\* a countdown that starts at 2
CountdownFromTwo == 1 + 1
\* server-modular.ts:491  let countdown = 3
CountdownFrom == 3
\* a Match of four games
FourGamesPerMatch == 3 + 1
\* server-modular.ts:143  getRandomUniqueGameIds(3)
GamesPerMatch == 3

NoConn == "none"

\* game-registry.ts:44-47, in registration order
RegisteredGames ==
  <<"reaction-time", "tic-tac-toe", "rock-paper-scissors", "whack-a-mole">>

\* config.minPlayers / config.maxPlayers of every engine
MinPlayers(gameId) == 2
MaxPlayers(gameId) == 2

---------------------------------------------------------------------------
(* Small helpers *)

SeqToSet(s) == {s[i] : i \in 1..Len(s)}

RECURSIVE SeqFilter(_, _)
SeqFilter(s, keep) ==
  IF s = <<>> THEN <<>>
  ELSE IF Head(s) \in keep THEN <<Head(s)>> \o SeqFilter(Tail(s), keep)
       ELSE SeqFilter(Tail(s), keep)

\* Array.prototype.findIndex: the first 0-based index, -1 if none
FindIndex(s, x) ==
  IF \E i \in 1..Len(s) : s[i] = x
  THEN (CHOOSE i \in 1..Len(s) : s[i] = x /\ \A j \in 1..(i-1) : s[j] # x) - 1
  ELSE -1

\* players.find(p => p.id !== id)?.id
OtherPlayer(players, id) ==
  IF \E i \in 1..Len(players) : players[i] # id
  THEN players[CHOOSE i \in 1..Len(players) :
                 players[i] # id /\ \A j \in 1..(i-1) : players[j] = id]
  ELSE NoConn

\* one socket.emit call
Ev(to, ev, g, arg) == [to |-> to, ev |-> ev, g |-> g, arg |-> arg]

\* emitToPlayers / players.forEach(p => p.socket.emit(ev, arg))
EmitToPlayers(players, ev, g, arg) ==
  [i \in 1..Len(players) |-> Ev(players[i], ev, g, arg)]

\* broadcastQueueStatus, server-modular.ts:97-108
BroadcastQueueStatus(queue) ==
  [i \in 1..Len(queue) |->
     Ev(queue[i], "queue-status-update", 0, [queueSize |-> Len(queue), position |-> i])]

\* a removal that drops whoever is at the head of the queue
RemoveHeadOfQueue(queue, playerId) ==
  IF queue = <<>> THEN queue ELSE Tail(queue)

\* removePlayerFromQueue, server-modular.ts:122-127
RemovePlayerFromQueue(queue, playerId) ==
  LET index == FindIndex(queue, playerId)
  IN IF index # -1
     THEN SubSeq(queue, 1, index) \o SubSeq(queue, index + 2, Len(queue))
     ELSE queue

---------------------------------------------------------------------------
(* GameResult, game-interface.ts:39-44 *)

\* scores[player.id] = vals[seat], assigned seat by seat (a later seat with
\* the same id overwrites an earlier one)
ScoresFromSeats(players, vals) ==
  [id \in SeqToSet(players) |->
     vals[CHOOSE i \in 1..Len(players) :
            players[i] = id /\ \A j \in (i+1)..Len(players) : players[j] # id]]

NullResult == [null |-> TRUE, winnerId |-> NoConn, isDraw |-> FALSE,
               scores |-> [id \in {} |-> 0]]

Result(winnerId, isDraw, scores) ==
  [null |-> FALSE, winnerId |-> winnerId, isDraw |-> isDraw, scores |-> scores]

\* result.scores[id] || 0
ScoreOf(result, id) ==
  IF id \in DOMAIN result.scores THEN result.scores[id] ELSE 0

---------------------------------------------------------------------------
(* ReactionTimeGame, games/server/reaction-time.ts:10-209 *)

ReactionInit ==
  [type |-> "reaction-time", state |-> "waiting",
   gameData |-> [startSignal |-> FALSE,
                 playerClicks |-> <<>>,     \* <<id, click time>> in insertion order
                 bothPlayersClicked |-> FALSE],
   reactionTimeout |-> FALSE,               \* the green-light timer is pending
   resultsTimers |-> 0]                     \* pending results-delay timeouts

ClickedPlayers(e) ==
  [i \in 1..Len(e.gameData.playerClicks) |-> e.gameData.playerClicks[i][1]]

ClickTime(e, id) ==
  LET pc == e.gameData.playerClicks
  IN pc[CHOOSE i \in 1..Len(pc) : pc[i][1] = id][2]

\* a loop that lets a later click win on equal times
RECURSIVE FastestLastOnTie(_, _)
FastestLastOnTie(e, k) ==
  LET pc == e.gameData.playerClicks
  IN IF k = 0 THEN pc[1]
     ELSE LET best == FastestLastOnTie(e, k - 1)
          IN IF pc[k][2] <= best[2] THEN pc[k] ELSE best

\* the loop of reaction-time.ts:122-130 over the first k clicked players
RECURSIVE Fastest(_, _)
Fastest(e, k) ==
  LET pc == e.gameData.playerClicks
  IN IF k = 0 THEN pc[1]
     ELSE LET best == Fastest(e, k - 1)
          IN IF pc[k][2] < best[2] THEN pc[k] ELSE best

\* a checkGameEnd for which a single click decides nothing
ReactionCheckGameEndNeedsTwo(e, players) ==
  LET clicked == ClickedPlayers(e)
  IN IF Len(clicked) = 2
     THEN LET fastestPlayerId == Fastest(e, 2)[1]
          IN Result(fastestPlayerId, FALSE,
                    ScoresFromSeats(players,
                      [i \in 1..Len(players) |->
                         IF players[i] = fastestPlayerId THEN 1 ELSE 0]))
     ELSE Result(NoConn, TRUE,
                 ScoresFromSeats(players, [i \in 1..Len(players) |-> 0]))

\* reaction-time.ts:108-190.  reactionTimes subtracts the same
\* greenLightStartTime from every click time, so click times are compared.
ReactionCheckGameEnd(e, players) ==
  LET clicked == ClickedPlayers(e)
  IN IF Len(clicked) = 2
     THEN LET fastestPlayerId == Fastest(e, 2)[1]
          IN Result(fastestPlayerId, FALSE,
                    ScoresFromSeats(players,
                      [i \in 1..Len(players) |->
                         IF players[i] = fastestPlayerId THEN 1 ELSE 0]))
     ELSE IF Len(clicked) = 1
     THEN Result(clicked[1], FALSE,
                 ScoresFromSeats(players,
                   [i \in 1..Len(players) |->
                      IF players[i] = clicked[1] THEN 1 ELSE 0]))
     ELSE Result(NoConn, TRUE,
                 ScoresFromSeats(players, [i \in 1..Len(players) |-> 0]))

\* a handlePlayerAction that does not wait for the start signal
ReactionHandlePlayerActionEarly(e, g, players, playerId, now) ==
  IF \/ playerId \in SeqToSet(ClickedPlayers(e))
     \/ e.gameData.bothPlayersClicked
  THEN [game |-> e, out |-> <<>>]
  ELSE LET clicks == Append(e.gameData.playerClicks, <<playerId, now>>)
           both == Len(clicks) = 2
       IN [game |-> [e EXCEPT !.gameData.playerClicks = clicks,
                              !.gameData.bothPlayersClicked = @ \/ both,
                              !.resultsTimers = IF both THEN @ + 1 ELSE @],
           out |-> EmitToPlayers(players, "player-clicked", g, playerId)]

\* reaction-time.ts:67-103
ReactionHandlePlayerAction(e, g, players, playerId, now) ==
  IF \/ ~e.gameData.startSignal
     \/ playerId \in SeqToSet(ClickedPlayers(e))
     \/ e.gameData.bothPlayersClicked
  THEN [game |-> e, out |-> <<>>]
  ELSE LET clicks == Append(e.gameData.playerClicks, <<playerId, now>>)
           both == Len(clicks) = 2
       IN [game |-> [e EXCEPT !.gameData.playerClicks = clicks,
                              !.gameData.bothPlayersClicked = @ \/ both,
                              !.resultsTimers = IF both THEN @ + 1 ELSE @],
           out |-> EmitToPlayers(players, "player-clicked", g, playerId)]

---------------------------------------------------------------------------
(* TicTacToeGame, unnamed/part_003:10-154 *)

Empty == "null"

TttInit ==
  [type |-> "tic-tac-toe", state |-> "waiting",
   gameData |-> [board |-> [i \in 1..9 |-> Empty],   \* cell k is board[k+1]
                 currentPlayer |-> 0,
                 moves |-> 0]]

PlayerSymbols == <<"X", "O">>

\* the winning lines without the diagonal 2, 4, 6
WinPatternsNoAntiDiagonal ==
  << <<0, 1, 2>>, <<3, 4, 5>>, <<6, 7, 8>>,
     <<0, 3, 6>>, <<1, 4, 7>>, <<2, 5, 8>>,
     <<0, 4, 8>> >>

\* part_003:94-98, 0-based cells
WinPatterns ==
  << <<0, 1, 2>>, <<3, 4, 5>>, <<6, 7, 8>>,
     <<0, 3, 6>>, <<1, 4, 7>>, <<2, 5, 8>>,
     <<0, 4, 8>>, <<2, 4, 6>> >>

LineComplete(board, pattern) ==
  /\ board[pattern[1] + 1] # Empty
  /\ board[pattern[1] + 1] = board[pattern[2] + 1]
  /\ board[pattern[1] + 1] = board[pattern[3] + 1]

\* part_003:90-142
TttCheckGameEnd(e, players) ==
  LET board == e.gameData.board
  IN IF \E k \in 1..Len(WinPatterns) : LineComplete(board, WinPatterns[k])
     THEN LET k == CHOOSE k \in 1..Len(WinPatterns) :
                     /\ LineComplete(board, WinPatterns[k])
                     /\ \A j \in 1..(k-1) : ~LineComplete(board, WinPatterns[j])
              symbol == board[WinPatterns[k][1] + 1]
              playerIndex == FindIndex(PlayerSymbols, symbol)
          IN Result(players[playerIndex + 1], FALSE,
                    ScoresFromSeats(players,
                      [i \in 1..Len(players) |->
                         IF i - 1 = playerIndex THEN 1 ELSE 0]))
     ELSE IF e.gameData.moves = 9
     THEN Result(NoConn, TRUE,
                 ScoresFromSeats(players, [i \in 1..Len(players) |-> 0]))
     ELSE NullResult

\* a move handler that does not test whose turn it is
TttHandlePlayerActionAnyTurn(e, g, players, playerId, action) ==
  LET playerIndex == FindIndex(players, playerId)
  IN IF \/ playerIndex = -1
        \/ action.kind # "position"
        \/ action.position < 0
        \/ action.position >= 9
        \/ e.gameData.board[action.position + 1] # Empty
     THEN [game |-> e, out |-> <<>>]
     ELSE LET moved == [e EXCEPT
                          !.gameData.board[action.position + 1] =
                              PlayerSymbols[playerIndex + 1],
                          !.gameData.currentPlayer = 1 - @,
                          !.gameData.moves = @ + 1]
          IN [game |-> moved,
              out |-> EmitToPlayers(players, "game-update", g,
                                    moved.gameData.currentPlayer)]

\* part_003:51-85.  action.position is undefined unless the action carries one;
\* board[undefined] !== null, so such an action is rejected.
\* The move handler without the test that the chosen cell is empty.
TttHandlePlayerActionOverwriting(e, g, players, playerId, action) ==
  LET playerIndex == FindIndex(players, playerId)
  IN IF \/ playerIndex # e.gameData.currentPlayer
        \/ action.kind # "position"
        \/ action.position < 0
        \/ action.position >= 9
     THEN [game |-> e, out |-> <<>>]
     ELSE LET moved == [e EXCEPT
                          !.gameData.board[action.position + 1] =
                              PlayerSymbols[playerIndex + 1],
                          !.gameData.currentPlayer = 1 - @,
                          !.gameData.moves = @ + 1]
          IN [game |-> IF TttCheckGameEnd(moved, players).null
                       THEN moved
                       ELSE [moved EXCEPT !.state = "finished"],
              out |-> EmitToPlayers(players, "game-update", g,
                                    moved.gameData.currentPlayer)]

TttHandlePlayerAction(e, g, players, playerId, action) ==
  LET playerIndex == FindIndex(players, playerId)
  IN IF \/ playerIndex # e.gameData.currentPlayer
        \/ action.kind # "position"
        \/ action.position < 0
        \/ action.position >= 9
        \/ e.gameData.board[action.position + 1] # Empty
     THEN [game |-> e, out |-> <<>>]
     ELSE LET moved == [e EXCEPT
                          !.gameData.board[action.position + 1] =
                              PlayerSymbols[playerIndex + 1],
                          !.gameData.currentPlayer = 1 - @,
                          !.gameData.moves = @ + 1]
          IN [game |-> IF TttCheckGameEnd(moved, players).null
                       THEN moved
                       ELSE [moved EXCEPT !.state = "finished"],
              out |-> EmitToPlayers(players, "game-update", g,
                                    moved.gameData.currentPlayer)]

---------------------------------------------------------------------------
(* RockPaperScissorsGame, games/server/rock-paper-scissors.ts:10-166 *)

\* rock-paper-scissors.ts:28  maxRounds: 3
MaxRounds == 3

Choices == {"rock", "paper", "scissors"}
NoChoice == "undefined"

RpsInit ==
  [type |-> "rock-paper-scissors", state |-> "waiting",
   gameData |-> [rounds |-> 0,
                 choices |-> <<NoChoice, NoChoice>>,  \* choices[k] is choices[k+1]
                 scores |-> <<0, 0>>],
   nextRoundTimers |-> 0]                   \* pending next-round timeouts

\* a round that the first seat wins whenever the choices differ
DetermineRoundWinnerFirstSeat(choice1, choice2) ==
  IF choice1 = choice2 THEN -1 ELSE 0

\* rock-paper-scissors.ts:114-126: 0 or 1 is the winning seat, -1 a draw
DetermineRoundWinner(choice1, choice2) ==
  IF choice1 = choice2 THEN -1
  ELSE IF \/ (choice1 = "rock" /\ choice2 = "scissors")
          \/ (choice1 = "paper" /\ choice2 = "rock")
          \/ (choice1 = "scissors" /\ choice2 = "paper")
       THEN 0
       ELSE 1

\* rock-paper-scissors.ts:128-157.  `score` is the players' Player.score,
\* which the function writes and then reports.
RpsCheckGameEnd(e, players, score) ==
  IF e.gameData.rounds >= MaxRounds
  THEN LET s == e.gameData.scores
           winnerSeat == IF s[1] > s[2] THEN 1 ELSE IF s[2] > s[1] THEN 2 ELSE 0
           newScore == IF winnerSeat = 0 THEN score
                       ELSE [score EXCEPT ![winnerSeat] = 1]
           winnerId == IF winnerSeat = 0 THEN NoConn ELSE players[winnerSeat]
       IN [result |-> Result(winnerId, winnerSeat = 0,
                             ScoresFromSeats(players, newScore)),
           score |-> newScore]
  ELSE [result |-> NullResult, score |-> score]

\* a view of the round that is the first seat's for every player
RoundViewOfFirstSeat(winner, idx) ==
  IF winner = 0 THEN "you" ELSE IF winner = -1 THEN "draw" ELSE "opponent"

\* rock-paper-scissors.ts:91: what the player at seat idx is told
RoundView(winner, idx) ==
  IF winner = idx THEN "you" ELSE IF winner = -1 THEN "draw" ELSE "opponent"

\* rock-paper-scissors.ts:70-112
ResolveRound(e, g, players, score) ==
  LET choice1 == e.gameData.choices[1]
      choice2 == e.gameData.choices[2]
      winner == DetermineRoundWinner(choice1, choice2)
      scores == IF winner # -1
                THEN [e.gameData.scores EXCEPT ![winner + 1] = @ + 1]
                ELSE e.gameData.scores
      results ==
        [i \in 1..Len(players) |->
           Ev(players[i], "round-result", g,
              [yourChoice |-> e.gameData.choices[i],
               opponentChoice |-> e.gameData.choices[3 - i],
               winner |-> RoundView(winner, i - 1),
               scores |-> scores,
               round |-> e.gameData.rounds + 1])]
      resolved == [e EXCEPT !.gameData.scores = scores,
                            !.gameData.rounds = @ + 1,
                            !.gameData.choices = <<NoChoice, NoChoice>>]
  IN IF resolved.gameData.rounds >= MaxRounds
     THEN \* this.endGame(): BaseGame.endGame, game-interface.ts:94-99
          [game |-> [resolved EXCEPT !.state = "finished"],
           score |-> RpsCheckGameEnd(resolved, players, score).score,
           out |-> results]
     ELSE [game |-> [resolved EXCEPT !.nextRoundTimers = @ + 1],
           score |-> score,
           out |-> results]

\* a handler that lets a player replace the choice of the running round
RpsHandlePlayerActionOverwriting(e, g, players, score, playerId, action) ==
  LET playerIndex == FindIndex(players, playerId)
  IN IF \/ action.kind # "choice"
        \/ action.choice \notin Choices
     THEN [game |-> e, score |-> score, out |-> <<>>]
     ELSE LET chosen == [e EXCEPT !.gameData.choices[playerIndex + 1] = action.choice]
          IN IF \A i \in 1..2 : chosen.gameData.choices[i] # NoChoice
             THEN ResolveRound(chosen, g, players, score)
             ELSE [game |-> chosen, score |-> score, out |-> <<>>]

\* rock-paper-scissors.ts:52-68
RpsHandlePlayerAction(e, g, players, score, playerId, action) ==
  LET playerIndex == FindIndex(players, playerId)
  IN IF \/ action.kind # "choice"
        \/ action.choice \notin Choices
        \/ e.gameData.choices[playerIndex + 1] # NoChoice
     THEN [game |-> e, score |-> score, out |-> <<>>]
     ELSE LET chosen == [e EXCEPT !.gameData.choices[playerIndex + 1] = action.choice]
          IN IF \A i \in 1..2 : chosen.gameData.choices[i] # NoChoice
             THEN ResolveRound(chosen, g, players, score)
             ELSE [game |-> chosen, score |-> score, out |-> <<>>]

---------------------------------------------------------------------------
(* WhackAMoleGame, games/server/whack-a-mole.ts:10-153 (one mole at a time) *)

Positions == 0..8

WamInit ==
  [type |-> "whack-a-mole", state |-> "waiting",
   gameData |-> [moles |-> {},              \* the positions p with moles[p] = true
                 activeMole |-> -1,
                 scores |-> <<0, 0>>],
   moleInterval |-> FALSE,                  \* the spawn interval is running
   gameTimeout |-> FALSE,                   \* the engine's own end timer is pending
   hideTimers |-> [p \in Positions |-> 0],  \* pending hide timeouts per position
   spawns |-> 0]                            \* mole appearances so far

\* whack-a-mole.ts:112-136
WamCheckGameEnd(e, players) ==
  LET s == e.gameData.scores
      winnerId == IF s[1] > s[2] THEN players[1]
                  ELSE IF s[2] > s[1] THEN players[2] ELSE NoConn
  IN Result(winnerId, winnerId = NoConn, ScoresFromSeats(players, s))

\* a handlePlayerAction that counts a hit on every square
WamHandlePlayerActionAnySquare(e, g, players, score, playerId, action) ==
  LET playerIndex == FindIndex(players, playerId)
  IN IF action.kind = "position"
     THEN LET scores == [e.gameData.scores EXCEPT ![playerIndex + 1] = @ + 1]
          IN [game |-> [e EXCEPT !.gameData.scores = scores,
                                 !.gameData.moles = @ \ {action.position},
                                 !.gameData.activeMole = -1],
              score |-> [score EXCEPT ![playerIndex + 1] = scores[playerIndex + 1]],
              out |-> EmitToPlayers(players, "score-update", g, scores)
                      \o EmitToPlayers(players, "mole-hit", g, action.position)]
     ELSE [game |-> e, score |-> score, out |-> <<>>]

\* a handlePlayerAction that leaves the mole it counted standing
WamHandlePlayerActionLeavingMole(e, g, players, score, playerId, action) ==
  LET playerIndex == FindIndex(players, playerId)
  IN IF /\ action.kind = "position"
        /\ action.position = e.gameData.activeMole
        /\ action.position \in e.gameData.moles
     THEN LET scores == [e.gameData.scores EXCEPT ![playerIndex + 1] = @ + 1]
          IN [game |-> [e EXCEPT !.gameData.scores = scores],
              score |-> [score EXCEPT ![playerIndex + 1] = scores[playerIndex + 1]],
              out |-> EmitToPlayers(players, "score-update", g, scores)
                      \o EmitToPlayers(players, "mole-hit", g, action.position)]
     ELSE [game |-> e, score |-> score, out |-> <<>>]

\* whack-a-mole.ts:78-110
WamHandlePlayerAction(e, g, players, score, playerId, action) ==
  LET playerIndex == FindIndex(players, playerId)
  IN IF /\ action.kind = "position"
        /\ action.position = e.gameData.activeMole
        /\ action.position \in e.gameData.moles
     THEN LET scores == [e.gameData.scores EXCEPT ![playerIndex + 1] = @ + 1]
          IN [game |-> [e EXCEPT !.gameData.scores = scores,
                                 !.gameData.moles = @ \ {action.position},
                                 !.gameData.activeMole = -1],
              score |-> [score EXCEPT ![playerIndex + 1] = scores[playerIndex + 1]],
              out |-> EmitToPlayers(players, "score-update", g, scores)
                      \o EmitToPlayers(players, "mole-hit", g, action.position)]
     ELSE [game |-> e, score |-> score, out |-> <<>>]

\* whack-a-mole.ts:145-152
WamCleanup(e) == [e EXCEPT !.moleInterval = FALSE, !.gameTimeout = FALSE]

---------------------------------------------------------------------------
(* BaseGame and GameRegistry: dispatch on the engine's class *)

\* new GameClass(players): game-interface.ts:63-66
NewEngine(gameId) ==
  CASE gameId = "reaction-time" -> ReactionInit
    [] gameId = "tic-tac-toe" -> TttInit
    [] gameId = "rock-paper-scissors" -> RpsInit
    [] gameId = "whack-a-mole" -> WamInit

NullGame == [type |-> "null"]

\* a createGame that does not look at the number of players
CreateGameAnyCount(gameId, players) ==
  IF gameId \notin SeqToSet(RegisteredGames) THEN NullGame
  ELSE NewEngine(gameId)

\* GameRegistry.createGame, game-registry.ts:82-106
CreateGame(gameId, players) ==
  IF gameId \notin SeqToSet(RegisteredGames) THEN NullGame
  ELSE IF Len(players) < MinPlayers(gameId) \/ Len(players) > MaxPlayers(gameId)
       THEN NullGame
       ELSE NewEngine(gameId)

\* a getRandomUniqueGameIds that does not put reaction-time first
GetRandomUniqueGameIdsUnforced(count, shuffledOthers) ==
  IF count > Len(RegisteredGames)
  THEN [error |-> TRUE, ids |-> <<>>]
  ELSE [error |-> FALSE,
        ids |-> SubSeq(shuffledOthers \o <<"reaction-time">>, 1, count)]

\* GameRegistry.getRandomUniqueGameIds, game-registry.ts:118-135.
\* shuffledOthers is the outcome of sort(() => Math.random() - 0.5).
GetRandomUniqueGameIds(count, shuffledOthers) ==
  IF count > Len(RegisteredGames)
  THEN [error |-> TRUE, ids |-> <<>>]
  ELSE LET result == <<"reaction-time">> \o
                     SubSeq(shuffledOthers, 1, count - 1)
       IN [error |-> FALSE, ids |-> SubSeq(result, 1, count)]

OtherGames == SeqFilter(RegisteredGames, SeqToSet(RegisteredGames) \ {"reaction-time"})

\* every order a shuffle of otherGames can produce
Shuffles ==
  {s \in [1..Len(OtherGames) -> SeqToSet(OtherGames)] :
     \A i, j \in 1..Len(OtherGames) : i # j => s[i] # s[j]}

\* checkGameEnd() of the engine's class; RPS also writes Player.score
CheckGameEnd(e, players, score) ==
  CASE e.type = "reaction-time" ->
         [result |-> ReactionCheckGameEnd(e, players), score |-> score]
    [] e.type = "tic-tac-toe" ->
         [result |-> TttCheckGameEnd(e, players), score |-> score]
    [] e.type = "rock-paper-scissors" -> RpsCheckGameEnd(e, players, score)
    [] e.type = "whack-a-mole" ->
         [result |-> WamCheckGameEnd(e, players), score |-> score]

\* an endGame that names the first seat winner when checkGameEnd has no
\* result
BaseEndGameFirstSeat(e, players, score) ==
  LET r == CheckGameEnd(e, players, score)
  IN [game |-> [e EXCEPT !.state = "finished"],
      score |-> r.score,
      result |-> IF r.result.null
                 THEN Result(players[1], FALSE, ScoresFromSeats(players, <<1, 0>>))
                 ELSE r.result]

\* BaseGame.endGame, game-interface.ts:94-99
BaseEndGame(e, players, score) ==
  LET r == CheckGameEnd(e, players, score)
  IN [game |-> [e EXCEPT !.state = "finished"],
      score |-> r.score,
      result |-> IF r.result.null
                 THEN Result(NoConn, TRUE, [id \in {} |-> 0])
                 ELSE r.result]

\* onGameStart() of the engine's class: every engine emits game-start;
\* reaction-time.ts:42-62, part_003:37-46, rock-paper-scissors.ts:38-47,
\* whack-a-mole.ts:34-76
OnGameStart(e, g, players) ==
  [game |-> CASE e.type = "reaction-time" -> [e EXCEPT !.reactionTimeout = TRUE]
              [] e.type = "whack-a-mole" ->
                   [e EXCEPT !.moleInterval = TRUE, !.gameTimeout = TRUE]
              [] OTHER -> e,
   out |-> EmitToPlayers(players, "game-start", g, e.type)]

\* BaseGame.startGame, game-interface.ts:87-91
BaseStartGame(e, g, players) ==
  OnGameStart([e EXCEPT !.state = "playing"], g, players)

\* handlePlayerAction() of the engine's class
HandlePlayerAction(e, g, players, score, playerId, action, now) ==
  CASE e.type = "reaction-time" ->
         LET r == ReactionHandlePlayerAction(e, g, players, playerId, now)
         IN [game |-> r.game, score |-> score, out |-> r.out]
    [] e.type = "tic-tac-toe" ->
         LET r == TttHandlePlayerAction(e, g, players, playerId, action)
         IN [game |-> r.game, score |-> score, out |-> r.out]
    [] e.type = "rock-paper-scissors" ->
         RpsHandlePlayerAction(e, g, players, score, playerId, action)
    [] e.type = "whack-a-mole" ->
         WamHandlePlayerAction(e, g, players, score, playerId, action)

\* cleanup() of the engine's class: reaction-time.ts:204-208,
\* whack-a-mole.ts:145-152; the other two engines define none
Cleanup(e) ==
  CASE e.type = "reaction-time" -> [e EXCEPT !.reactionTimeout = FALSE]
    [] e.type = "whack-a-mole" -> WamCleanup(e)
    [] OTHER -> e

---------------------------------------------------------------------------
(* The coordinator, server-modular.ts *)

Players(inst) == matches[inst.matchId].players   \* game.players is match.players

\* findGameInstance, server-modular.ts:111-119: the first GameInstance of the
\* Map that seats playerId, 0 if none
FindGameInstance(playerId) ==
  LET mine == {g \in activeGames : playerId \in SeqToSet(Players(games[g]))}
  IN IF mine = {} THEN 0
     ELSE CHOOSE g \in mine : \A h \in mine : g <= h

\* a createMatch that starts the Match at its second game
CreateMatchAtSecondGame(player1, player2, gameQueue) ==
  [players |-> <<player1, player2>>,
   gameQueue |-> gameQueue,
   currentGameIndex |-> 1,
   matchScores |-> [id \in {player1, player2} |-> 0],
   readyStatus |-> [id \in {player1, player2} |-> FALSE],
   state |-> "countdown",
   score |-> <<0, 0>>,
   rageQuitBy |-> NoConn]

\* createMatch, server-modular.ts:140-167 (the Match object)
CreateMatch(player1, player2, gameQueue) ==
  [players |-> <<player1, player2>>,
   gameQueue |-> gameQueue,
   currentGameIndex |-> 0,
   matchScores |-> [id \in {player1, player2} |-> 0],
   readyStatus |-> [id \in {player1, player2} |-> FALSE],
   state |-> "countdown",
   score |-> <<0, 0>>,          \* Player.score of players[0], players[1]
   \* what has happened to the Match so far
   rageQuitBy |-> NoConn]       \* the connection whose rage-quit removed it

\* createGameInstanceForMatch, server-modular.ts:170-191 (the GameInstance
\* object; a null game makes the function throw)
CreateGameInstanceForMatch(matchId, match) ==
  [matchId |-> matchId,
   game |-> CreateGame(match.gameQueue[match.currentGameIndex + 1], match.players),
   state |-> "countdown",
   countdown |-> 0,               \* startCountdown's local variable
   countdownInterval |-> FALSE,   \* the countdown interval is running
   timeLeft |-> 0,                \* startGame's local variable
   timerInterval |-> FALSE,       \* the duration interval is running
   backup |-> 0,                  \* pending backup timeouts
   dispose |-> 0,                 \* pending disposal timeouts
   \* what has happened to the instance so far
   index |-> match.currentGameIndex,   \* currentGameIndex at creation
   cdSent |-> <<>>,               \* the countdown values emitted
   starts |-> 0,                  \* calls of startGame
   ends |-> 0,                    \* calls of endGame
   distributed |-> 0,             \* times game-end was emitted to the players
   scored |-> 0,                  \* increments of a cumulative match score
   cleanups |-> 0,                \* calls of game.cleanup
   result |-> NullResult]         \* the result of the last game.endGame()

\* startCountdown, server-modular.ts:490-497 (up to setInterval)
StartCountdown(inst, g, players) ==
  [inst |-> [inst EXCEPT !.countdown = CountdownFrom,
                         !.countdownInterval = TRUE,
                         !.cdSent = Append(@, CountdownFrom)],
   out |-> EmitToPlayers(players, "countdown", g, CountdownFrom)]

\* startGame, server-modular.ts:516-580
StartGame(inst, g, players) ==
  LET r == BaseStartGame(inst.game, g, players)
  IN [inst |-> [inst EXCEPT !.state = "playing",
                            !.game = r.game,
                            !.timeLeft = DurTicks,
                            !.timerInterval = TRUE,
                            !.backup = @ + 1,
                            !.starts = @ + 1],
      out |-> r.out \o EmitToPlayers(players, "timer-update", g, DurTicks)]

\* a game-end event that reports the player's own cumulative score as the
\* opponent's
GameEndEventOwnScores(player, opponent, g, result, match) ==
  Ev(player, "game-end", g,
     [winner |-> player = result.winnerId,
      draw |-> result.isDraw,
      finalScores |-> [you |-> ScoreOf(result, player),
                       opponent |-> ScoreOf(result, opponent)],
      matchScores |-> [you |-> match.matchScores[player],
                       opponent |-> match.matchScores[player]],
      currentGame |-> match.currentGameIndex + 1,
      totalGames |-> Len(match.gameQueue)])

\* the game-end event of one player, server-modular.ts:613-633
GameEndEvent(player, opponent, g, result, match) ==
  Ev(player, "game-end", g,
     [winner |-> player = result.winnerId,
      draw |-> result.isDraw,
      finalScores |-> [you |-> ScoreOf(result, player),
                       opponent |-> ScoreOf(result, opponent)],
      matchScores |-> [you |-> match.matchScores[player],
                       opponent |-> IF opponent = NoConn THEN 0
                                    ELSE match.matchScores[opponent]],
      currentGame |-> match.currentGameIndex + 1,
      totalGames |-> Len(match.gameQueue)])

\* a test that finds no result decisive
NeverDecisive(result) == FALSE

\* server-modular.ts:606  result.winnerId && !result.isDraw
IsDecisive(result) == result.winnerId # NoConn /\ ~result.isDraw

\* endGame, server-modular.ts:583-650.  ms is the Match table as the caller
\* left it; the result is the instance, the Match table and the emits.
EndGame(inst, g, ms) ==
  LET m == inst.matchId
      players == ms[m].players
      r == BaseEndGame(inst.game, players, ms[m].score)
      ended == [inst EXCEPT !.state = "finished",
                            !.timerInterval = FALSE,
                            !.game = r.game,
                            !.ends = @ + 1,
                            !.result = r.result]
      ms1 == [ms EXCEPT ![m].score = r.score]
  IN IF m \notin activeMatches
     THEN [inst |-> ended, matches |-> ms1, out |-> <<>>]
     ELSE LET wins == IsDecisive(r.result)
              ms2 == IF wins
                     THEN [ms1 EXCEPT ![m].matchScores[r.result.winnerId] = @ + 1]
                     ELSE ms1
          IN [inst |-> [ended EXCEPT !.scored = IF wins THEN @ + 1 ELSE @,
                                     !.distributed = @ + 1,
                                     !.dispose = @ + 1],
              matches |-> ms2,
              out |-> [i \in 1..Len(players) |->
                         GameEndEvent(players[i], OtherPlayer(players, players[i]),
                                      g, r.result, ms2[m])]]

---------------------------------------------------------------------------
(* Socket event handlers, server-modular.ts:199-482 *)

\* a shift that leaves the head in the queue
ShiftNothing(queue) == queue

\* what waitingQueue.shift() leaves in the queue, server-modular.ts:224
Shift(queue) == Tail(queue)

\* socket.on("join-queue"), server-modular.ts:205-281.  constructorThrows says
\* that `new constructor(players)` throws in GameRegistry.createGame, which
\* then returns null (game-registry.ts:99-105).
JoinQueueCreating(c, shuffledOthers, constructorThrows) ==
  /\ connected[c]
  /\ UNCHANGED connected
  /\ IF Len(waitingQueue) > 0
     THEN LET opponent == Head(waitingQueue)
              shifted == Shift(waitingQueue)
              failed == shifted \o <<opponent, c>>
              errors == <<Ev(opponent, "matchmaking-error", 0, 0),
                          Ev(c, "matchmaking-error", 0, 0)>>
                        \o BroadcastQueueStatus(failed)
              picked == GetRandomUniqueGameIds(GamesPerMatch, shuffledOthers)
          IN IF picked.error
             THEN \* createMatch threw before it stored anything
                  /\ waitingQueue' = failed
                  /\ out' = errors
                  /\ UNCHANGED <<matches, activeMatches, playerToMatch,
                                 games, activeGames>>
             ELSE LET matchId == Len(matches) + 1
                      match == CreateMatch(opponent, c, picked.ids)
                      gameId == Len(games) + 1
                      created == CreateGameInstanceForMatch(matchId, match)
                      inst == IF constructorThrows
                              THEN [created EXCEPT !.game = NullGame]
                              ELSE created
                      cd == StartCountdown(inst, gameId, match.players)
                  IN /\ matches' = Append(matches, match)
                     /\ activeMatches' = activeMatches \cup {matchId}
                     /\ playerToMatch' = [playerToMatch EXCEPT ![opponent] = matchId,
                                                               ![c] = matchId]
                     /\ IF inst.game.type = "null"
                        THEN \* createGameInstanceForMatch threw
                             /\ waitingQueue' = failed
                             /\ out' = errors
                             /\ UNCHANGED <<games, activeGames>>
                        ELSE /\ waitingQueue' = shifted
                             /\ games' = Append(games, cd.inst)
                             /\ activeGames' = activeGames \cup {gameId}
                             /\ out' = <<Ev(opponent, "game-found", gameId, inst.game.type),
                                         Ev(c, "game-found", gameId, inst.game.type)>>
                                       \o cd.out \o BroadcastQueueStatus(shifted)
     ELSE /\ waitingQueue' = Append(waitingQueue, c)
          /\ out' = <<Ev(c, "waiting-for-opponent", 0, Len(waitingQueue) + 1)>>
                    \o BroadcastQueueStatus(Append(waitingQueue, c))
          /\ UNCHANGED <<matches, activeMatches, playerToMatch, games, activeGames>>

\* join-queue with the engines of the repository, whose constructors do not
\* throw
JoinQueue(c, shuffledOthers) == JoinQueueCreating(c, shuffledOthers, FALSE)

\* socket.on("leave-queue"), server-modular.ts:284-290
LeaveQueue(c) ==
  /\ connected[c]
  /\ waitingQueue' = RemovePlayerFromQueue(waitingQueue, c)
  /\ out' = <<Ev(c, "left-queue", 0, 0)>> \o BroadcastQueueStatus(waitingQueue')
  /\ UNCHANGED <<connected, matches, activeMatches, playerToMatch, games, activeGames>>

\* match.readyStatus after socket.id is set ready, server-modular.ts:312
ReadyAfter(match, c) == [match.readyStatus EXCEPT ![c] = TRUE]

\* a barrier that one ready flag opens
AnyReady(ready) == \E id \in DOMAIN ready : ready[id]

\* server-modular.ts:316
AllReady(ready) == \A id \in DOMAIN ready : ready[id]

\* a teardown that removes the routing entry of the first player only
ClearRoutingOfFirst(routing, players) == [routing EXCEPT ![players[1]] = 0]

\* match.players.forEach(player => playerToMatch.delete(player.id)),
\* server-modular.ts:370-372
ClearRouting(routing, players) ==
  [id \in DOMAIN routing |-> IF id \in SeqToSet(players) THEN 0 ELSE routing[id]]

\* socket.on("player-ready"), server-modular.ts:295-375
PlayerReady(c) ==
  /\ connected[c]
  /\ UNCHANGED <<connected, waitingQueue>>
  /\ playerToMatch[c] # 0                  \* server-modular.ts:300-303
  /\ playerToMatch[c] \in activeMatches     \* server-modular.ts:306-309
  /\ LET matchId == playerToMatch[c]
     IN      LET match == matches[matchId]
                 ready == ReadyAfter(match, c)
                 status ==
                   [i \in 1..Len(match.players) |->
                      LET opponentId == OtherPlayer(match.players, match.players[i])
                      IN Ev(match.players[i], "ready-status-update", 0,
                            [yourReady |-> ready[match.players[i]],
                             opponentReady |-> IF opponentId = NoConn THEN FALSE
                                               ELSE ready[opponentId]])]
             IN IF ~AllReady(ready)
                THEN /\ matches' = [matches EXCEPT ![matchId].readyStatus = ready]
                     /\ out' = status
                     /\ UNCHANGED <<activeMatches, playerToMatch, games, activeGames>>
                ELSE LET advanced ==
                           [match EXCEPT
                              !.readyStatus = [id \in DOMAIN ready |-> FALSE],
                              !.currentGameIndex = @ + 1]
                     IN IF advanced.currentGameIndex < Len(advanced.gameQueue)
                        THEN LET gameId == Len(games) + 1
                                 inst == CreateGameInstanceForMatch(matchId, advanced)
                                 cd == StartCountdown(inst, gameId, advanced.players)
                                 found ==
                                   [i \in 1..(2 * Len(advanced.players)) |->
                                      IF i % 2 = 1
                                      THEN Ev(advanced.players[(i + 1) \div 2],
                                              "both-players-ready", 0, 0)
                                      ELSE Ev(advanced.players[i \div 2],
                                              "game-found", gameId, inst.game.type)]
                             IN /\ matches' = [matches EXCEPT ![matchId] = advanced]
                                /\ UNCHANGED <<activeMatches, playerToMatch>>
                                /\ IF inst.game.type = "null"
                                   THEN \* caught and logged, server-modular.ts:361-363
                                        /\ out' = status
                                        /\ UNCHANGED <<games, activeGames>>
                                   ELSE /\ games' = Append(games, cd.inst)
                                        /\ activeGames' = activeGames \cup {gameId}
                                        /\ out' = status \o found \o cd.out
                        ELSE /\ matches' = [matches EXCEPT
                                              ![matchId] = [advanced EXCEPT !.state = "finished"]]
                             /\ activeMatches' = activeMatches \ {matchId}
                             /\ playerToMatch' = ClearRouting(playerToMatch, match.players)
                             /\ out' = status
                             /\ UNCHANGED <<games, activeGames>>

\* a rage-quit that leaves the opponent's routing entry in place
RageQuitKeepsRouting(c) ==
  /\ connected[c]
  /\ UNCHANGED <<connected, waitingQueue, games, activeGames>>
  /\ playerToMatch[c] # 0
  /\ playerToMatch[c] \in activeMatches
  /\ LET matchId == playerToMatch[c]
         opponent == OtherPlayer(matches[matchId].players, c)
     IN /\ out' = IF opponent # NoConn
                  THEN <<Ev(opponent, "opponent-rage-quit", 0, matchId)>>
                  ELSE <<>>
        /\ matches' = [matches EXCEPT ![matchId].rageQuitBy = c]
        /\ activeMatches' = activeMatches \ {matchId}
        /\ playerToMatch' = [playerToMatch EXCEPT ![c] = 0]

\* socket.on("rage-quit"), server-modular.ts:378-423
RageQuit(c) ==
  /\ connected[c]
  /\ UNCHANGED <<connected, waitingQueue, games, activeGames>>
  /\ playerToMatch[c] # 0                  \* server-modular.ts:383-386
  /\ playerToMatch[c] \in activeMatches     \* server-modular.ts:389-392
  /\ LET matchId == playerToMatch[c]
     IN      LET match == matches[matchId]
                 opponent == OtherPlayer(match.players, c)
             IN /\ out' = IF opponent # NoConn
                          THEN <<Ev(opponent, "opponent-rage-quit", 0, matchId)>>
                          ELSE <<>>
                /\ matches' = [matches EXCEPT ![matchId].rageQuitBy = c]
                /\ activeMatches' = activeMatches \ {matchId}
                /\ playerToMatch' =
                     [id \in Conns |->
                        IF id \in SeqToSet(match.players) THEN 0
                        ELSE playerToMatch[id]]

\* socket.on("game-action"), server-modular.ts:428-449
GameAction(c, action, now) ==
  /\ connected[c]
  /\ UNCHANGED <<connected, waitingQueue, activeMatches, playerToMatch, activeGames>>
  /\ FindGameInstance(c) # 0                            \* server-modular.ts:433
  /\ games[FindGameInstance(c)].state = "playing"
  /\ LET g == FindGameInstance(c)
     IN      LET inst == games[g]
                 m == inst.matchId
                 r == HandlePlayerAction(inst.game, g, Players(inst),
                                         matches[m].score, c, action, now)
                 acted == [inst EXCEPT !.game = r.game]
                 ms == [matches EXCEPT ![m].score = r.score]
             IN IF r.game.state = "finished"
                THEN LET e == EndGame(acted, g, ms)
                     IN /\ games' = [games EXCEPT ![g] = e.inst]
                        /\ matches' = e.matches
                        /\ out' = r.out \o e.out
                ELSE /\ games' = [games EXCEPT ![g] = acted]
                     /\ matches' = ms
                     /\ out' = r.out

\* socket.on("disconnect"), server-modular.ts:454-481
Disconnect(c) ==
  /\ connected[c]
  /\ connected' = [connected EXCEPT ![c] = FALSE]
  /\ waitingQueue' = RemovePlayerFromQueue(waitingQueue, c)
  /\ UNCHANGED <<matches, activeMatches, playerToMatch>>
  /\ LET g == FindGameInstance(c)
         status == BroadcastQueueStatus(waitingQueue')
     IN IF g = 0
        THEN /\ out' = status
             /\ UNCHANGED <<games, activeGames>>
        ELSE LET opponent == OtherPlayer(Players(games[g]), c)
             IN /\ out' = status \o
                          (IF opponent # NoConn
                           THEN <<Ev(opponent, "opponent-disconnected", g, 0)>>
                           ELSE <<>>)
                /\ games' = [games EXCEPT ![g].game = Cleanup(@),
                                          ![g].cleanups = @ + 1]
                /\ activeGames' = activeGames \ {g}

---------------------------------------------------------------------------
(* Timer callbacks of the coordinator *)

Frame == <<connected, waitingQueue, activeMatches, playerToMatch>>

\* a countdown that stops at 0 without starting the game
CountdownTickStopping(g) ==
  /\ g \in 1..Len(games)
  /\ games[g].countdownInterval
  /\ UNCHANGED <<Frame, matches, activeGames>>
  /\ LET inst == games[g]
         countdown == inst.countdown - 1
     IN IF countdown > 0
        THEN /\ games' = [games EXCEPT ![g].countdown = countdown,
                                       ![g].cdSent = Append(@, countdown)]
             /\ out' = EmitToPlayers(Players(inst), "countdown", g, countdown)
        ELSE /\ games' = [games EXCEPT ![g].countdown = countdown,
                                       ![g].countdownInterval = FALSE]
             /\ out' = <<>>

\* the setInterval callback of startCountdown, server-modular.ts:499-512
CountdownTick(g) ==
  /\ g \in 1..Len(games)
  /\ games[g].countdownInterval
  /\ UNCHANGED <<Frame, matches, activeGames>>
  /\ LET inst == games[g]
         countdown == inst.countdown - 1
     IN IF countdown > 0
        THEN /\ games' = [games EXCEPT ![g].countdown = countdown,
                                       ![g].cdSent = Append(@, countdown)]
             /\ out' = EmitToPlayers(Players(inst), "countdown", g, countdown)
        ELSE LET r == StartGame([inst EXCEPT !.countdown = countdown,
                                             !.countdownInterval = FALSE],
                                g, Players(inst))
             IN /\ games' = [games EXCEPT ![g] = r.inst]
                /\ out' = r.out

\* the setInterval callback of startGame, server-modular.ts:535-561
TimerTick(g) ==
  /\ g \in 1..Len(games)
  /\ games[g].timerInterval
  /\ UNCHANGED <<Frame, activeGames>>
  /\ LET inst == [games[g] EXCEPT !.timeLeft = @ - 1]
     IN IF inst.state = "playing" /\ inst.timeLeft > 0
        THEN /\ games' = [games EXCEPT ![g] = inst]
             /\ out' = EmitToPlayers(Players(inst), "timer-update", g, inst.timeLeft)
             /\ UNCHANGED matches
        ELSE IF inst.timeLeft <= 0 /\ inst.state = "playing"
        THEN LET e == EndGame([inst EXCEPT !.timerInterval = FALSE], g, matches)
             IN /\ games' = [games EXCEPT ![g] = e.inst]
                /\ matches' = e.matches
                /\ out' = e.out
        ELSE /\ games' = [games EXCEPT ![g] = [inst EXCEPT !.timerInterval = FALSE]]
             /\ out' = <<>>
             /\ UNCHANGED matches

\* a backup timeout that ends the game whatever the instance's state
BackupTimeoutUnguarded(g) ==
  /\ g \in 1..Len(games)
  /\ games[g].backup > 0
  /\ UNCHANGED <<Frame, activeGames>>
  /\ LET inst == [games[g] EXCEPT !.backup = @ - 1]
         e == EndGame([inst EXCEPT !.timerInterval = FALSE], g, matches)
     IN /\ games' = [games EXCEPT ![g] = e.inst]
        /\ matches' = e.matches
        /\ out' = e.out

\* the backup setTimeout of startGame, server-modular.ts:564-572
BackupTimeout(g) ==
  /\ g \in 1..Len(games)
  /\ games[g].backup > 0
  /\ games[g].state = "playing"             \* otherwise the callback does nothing
  /\ UNCHANGED <<Frame, activeGames>>
  /\ LET inst == [games[g] EXCEPT !.backup = @ - 1]
         e == EndGame([inst EXCEPT !.timerInterval = FALSE], g, matches)
     IN /\ games' = [games EXCEPT ![g] = e.inst]
        /\ matches' = e.matches
        /\ out' = e.out

\* the disposal setTimeout of endGame, server-modular.ts:637-642
DisposeTimeout(g) ==
  /\ g \in 1..Len(games)
  /\ games[g].dispose > 0
  /\ games' = [games EXCEPT ![g].dispose = @ - 1,
                            ![g].game = Cleanup(@),
                            ![g].cleanups = @ + 1]
  /\ activeGames' = activeGames \ {g}
  /\ out' = <<>>
  /\ UNCHANGED <<Frame, matches>>

---------------------------------------------------------------------------
(* Timer callbacks of the engines *)

\* the green-light setTimeout, reaction-time.ts:53-61
ReactionSignal(g) ==
  /\ g \in 1..Len(games)
  /\ games[g].game.type = "reaction-time"
  /\ games[g].game.reactionTimeout
  /\ games[g].game.state = "playing"        \* otherwise the callback does nothing
  /\ UNCHANGED <<Frame, matches, activeGames>>
  /\ games' = [games EXCEPT ![g].game.reactionTimeout = FALSE,
                            ![g].game.gameData.startSignal = TRUE]
  /\ out' = EmitToPlayers(Players(games[g]), "start-signal", g, 0)

\* the results-delay setTimeout, reaction-time.ts:97-101
ResultsDelay(g) ==
  /\ g \in 1..Len(games)
  /\ games[g].game.type = "reaction-time"
  /\ games[g].game.resultsTimers > 0
  /\ games[g].game.state = "playing"        \* otherwise the callback does nothing
  /\ UNCHANGED <<Frame, activeGames>>
  /\ out' = <<>>
  /\ LET e == [games[g].game EXCEPT !.resultsTimers = @ - 1]
         m == games[g].matchId
         r == BaseEndGame(e, Players(games[g]), matches[m].score)
     IN /\ games' = [games EXCEPT ![g].game = r.game]
        /\ matches' = [matches EXCEPT ![m].score = r.score]

\* the next-round setTimeout, rock-paper-scissors.ts:105-110
NextRound(g) ==
  /\ g \in 1..Len(games)
  /\ games[g].game.type = "rock-paper-scissors"
  /\ games[g].game.nextRoundTimers > 0
  /\ games' = [games EXCEPT ![g].game.nextRoundTimers = @ - 1]
  /\ out' = EmitToPlayers(Players(games[g]), "next-round", g,
                          games[g].game.gameData.rounds + 1)
  /\ UNCHANGED <<Frame, matches, activeGames>>

\* the setInterval callback of startMoleSequence, whack-a-mole.ts:44-69;
\* randomMole is Math.floor(Math.random() * 9).  The interval's period is
\* 2000 ms and the hide timeout it arms is 1500 ms (lines 68, 69), so the hide
\* timeout of one appearance has fired when the interval ticks again.
MoleSpawn(g, randomMole) ==
  /\ g \in 1..Len(games)
  /\ games[g].game.type = "whack-a-mole"
  /\ games[g].game.moleInterval
  /\ games[g].game.state = "playing"        \* whack-a-mole.ts:45-47
  /\ \A p \in Positions : games[g].game.hideTimers[p] = 0
  /\ UNCHANGED <<Frame, matches, activeGames>>
  /\ LET e == games[g].game
     IN      /\ games' = [games EXCEPT
                            ![g].game.gameData.moles =
                                (IF e.gameData.activeMole # -1
                                 THEN @ \ {e.gameData.activeMole} ELSE @)
                                \cup {randomMole},
                            ![g].game.gameData.activeMole = randomMole,
                            ![g].game.hideTimers[randomMole] = @ + 1,
                            ![g].game.spawns = @ + 1]
             /\ out' = EmitToPlayers(Players(games[g]), "mole-appears", g, randomMole)

\* the hide setTimeout of a spawned mole, whack-a-mole.ts:62-68
MoleHide(g, randomMole) ==
  /\ g \in 1..Len(games)
  /\ games[g].game.type = "whack-a-mole"
  /\ games[g].game.hideTimers[randomMole] > 0
  /\ UNCHANGED <<Frame, matches, activeGames>>
  /\ IF games[g].game.gameData.activeMole = randomMole
     THEN /\ games' = [games EXCEPT
                         ![g].game.hideTimers[randomMole] = @ - 1,
                         ![g].game.gameData.moles = @ \ {randomMole},
                         ![g].game.gameData.activeMole = -1]
          /\ out' = EmitToPlayers(Players(games[g]), "mole-disappears", g, randomMole)
     ELSE /\ games' = [games EXCEPT ![g].game.hideTimers[randomMole] = @ - 1]
          /\ out' = <<>>

\* the engine's own end setTimeout, whack-a-mole.ts:72-75
WamGameTimeout(g) ==
  /\ g \in 1..Len(games)
  /\ games[g].game.type = "whack-a-mole"
  /\ games[g].game.gameTimeout
  /\ UNCHANGED <<Frame, activeGames>>
  /\ out' = <<>>
  /\ LET m == games[g].matchId
         r == BaseEndGame(WamCleanup(games[g].game), Players(games[g]), matches[m].score)
     IN /\ games' = [games EXCEPT ![g].game = r.game]
        /\ matches' = [matches EXCEPT ![m].score = r.score]

---------------------------------------------------------------------------
(* The specification *)

Init ==
  /\ connected = [c \in Conns |-> TRUE]
  /\ waitingQueue = <<>>
  /\ matches = <<>>
  /\ activeMatches = {}
  /\ playerToMatch = [c \in Conns |-> 0]
  /\ games = <<>>
  /\ activeGames = {}
  /\ out = <<>>

\* the inputs enumerated
MaxSpawns == 1
SpawnPositions == {0}
Click == [kind |-> "click", position |-> -1, choice |-> NoChoice]
Position(p) == [kind |-> "position", position |-> p, choice |-> NoChoice]
Choice(ch) == [kind |-> "choice", position |-> -1, choice |-> ch]
Actions == {Click, Position(0), Choice("rock")}
MainConns == {"a", "b"}
MainShuffles ==
  {<<"tic-tac-toe", "rock-paper-scissors", "whack-a-mole">>,
   <<"rock-paper-scissors", "whack-a-mole", "tic-tac-toe">>,
   <<"whack-a-mole", "tic-tac-toe", "rock-paper-scissors">>}

\* this player-ready would create the next GameInstance
ReadyCreates(c) ==
  LET matchId == playerToMatch[c]
  IN /\ matchId # 0
     /\ matchId \in activeMatches
     /\ AllReady(ReadyAfter(matches[matchId], c))
     /\ matches[matchId].currentGameIndex + 1 < Len(matches[matchId].gameQueue)

\* join-queue, while at most maxM Matches and maxG GameInstances exist
Join(cs, shuffles, maxM, maxG) ==
  \E c \in cs, sh \in shuffles :
    /\ Len(waitingQueue) > 0 => (Len(matches) < maxM /\ Len(games) < maxG)
    /\ JoinQueue(c, sh)

\* player-ready, while at most maxG GameInstances exist
Ready(cs, maxG) ==
  \E c \in cs : (ReadyCreates(c) => Len(games) < maxG) /\ PlayerReady(c)

\* the timers of the coordinator
CoordinatorTimers ==
  \/ \E g \in 1..Len(games) : CountdownTick(g)
  \/ \E g \in 1..Len(games) : TimerTick(g)
  \/ \E g \in 1..Len(games) : BackupTimeout(g)
  \/ \E g \in 1..Len(games) : DisposeTimeout(g)

\* the timers an engine sets when its game starts
StartTimers ==
  \/ \E g \in 1..Len(games) : ReactionSignal(g)
  \/ \E g \in 1..Len(games), p \in SpawnPositions :
       /\ games[g].game.type = "whack-a-mole" => games[g].game.spawns < MaxSpawns
       /\ MoleSpawn(g, p)
  \/ \E g \in 1..Len(games), p \in SpawnPositions : MoleHide(g, p)
  \/ \E g \in 1..Len(games) : WamGameTimeout(g)

\* the timers an engine sets while handling a player's action
ActionTimers ==
  \/ \E g \in 1..Len(games) : ResultsDelay(g)
  \/ \E g \in 1..Len(games) : NextRound(g)

\* Two clients that stay connected and play: one Match, its first games.
Next ==
  \/ Join(MainConns, MainShuffles, MaxMatches, MaxGames)
  \/ Ready(MainConns, MaxGames)
  \/ \E c \in MainConns, action \in Actions, now \in ClockVals :
       \* an action the engine ignores is no step
       GameAction(c, action, now) /\ games' # games
  \/ CoordinatorTimers
  \/ StartTimers
  \/ ActionTimers

Spec == Init /\ [][Next]_vars

\* Two clients that quit or drop instead of playing.
NextQuit ==
  \/ Join(MainConns, MainShuffles, MaxMatches, MaxGames)
  \/ Ready(MainConns, MaxGames)
  \/ \E c \in MainConns : RageQuit(c)
  \/ \E c \in MainConns : Disconnect(c)
  \/ CoordinatorTimers
  \/ StartTimers

SpecQuit == Init /\ [][NextQuit]_vars

\* Three clients entering and leaving the queue; no timer fires.
QueueShuffles == {<<"tic-tac-toe", "rock-paper-scissors", "whack-a-mole">>}
NextQueue ==
  \/ Join(Conns, QueueShuffles, QueueMatches, QueueMatches)
  \/ \E c \in Conns : LeaveQueue(c)
  \/ \E c \in Conns : RageQuit(c)
  \/ \E c \in Conns : Disconnect(c)

SpecQueue == Init /\ [][NextQueue]_vars

\* Two clients readying up through whole tournaments; games only count down.
NextTournament ==
  \/ Join(MainConns, Shuffles, MaxMatches, TournamentGames)
  \/ Ready(MainConns, TournamentGames)
  \/ \E g \in 1..Len(games) : CountdownTick(g)

SpecTournament == Init /\ [][NextTournament]_vars

\* Three clients entering and leaving the queue while the construction of an
\* engine may fail; no timer fires.
NextFault ==
  \/ \E c \in Conns, sh \in QueueShuffles, constructorThrows \in BOOLEAN :
       /\ Len(waitingQueue) > 0 =>
            (Len(matches) < QueueMatches /\ Len(games) < QueueMatches)
       /\ JoinQueueCreating(c, sh, constructorThrows)
  \/ \E c \in Conns : LeaveQueue(c)
  \/ \E c \in Conns : RageQuit(c)
  \/ \E c \in Conns : Disconnect(c)

SpecFault == Init /\ [][NextFault]_vars

\* GameInstances created in a run of the disposal specification
DisposeGames == 1

\* Two clients whose one game ends by an action, by the duration timer or by
\* the backup timeout, or who rage-quit or drop.  The first game of a Match
\* is always reaction-time.
NextDispose ==
  \/ Join(MainConns, QueueShuffles, MaxMatches, DisposeGames)
  \/ \E c \in MainConns, now \in ClockVals :
       GameAction(c, Click, now) /\ games' # games
  \/ \E c \in MainConns : RageQuit(c)
  \/ \E c \in MainConns : Disconnect(c)
  \/ \E g \in 1..Len(games) : CountdownTick(g)
  \/ \E g \in 1..Len(games) : TimerTick(g)
  \/ \E g \in 1..Len(games) : BackupTimeout(g)
  \/ \E g \in 1..Len(games) : DisposeTimeout(g)
  \/ \E g \in 1..Len(games) : ReactionSignal(g)
  \/ \E g \in 1..Len(games) : ResultsDelay(g)

\* A timer that is pending fires: the event loop runs every callback that is
\* due.  Nothing obliges a client to send anything.
SpecDispose ==
  /\ Init /\ [][NextDispose]_vars
  /\ WF_vars(\E g \in 1..Len(games) : CountdownTick(g))
  /\ WF_vars(\E g \in 1..Len(games) : TimerTick(g))
  /\ WF_vars(\E g \in 1..Len(games) : BackupTimeout(g))
  /\ WF_vars(\E g \in 1..Len(games) : DisposeTimeout(g))
  /\ WF_vars(\E g \in 1..Len(games) : ReactionSignal(g))
  /\ WF_vars(\E g \in 1..Len(games) : ResultsDelay(g))

\* Two clients whose second game is tic-tac-toe: the first game ends and is
\* disposed of, then every move on every cell is tried.  The clients ready
\* up only while no game of theirs is in the active set, and join the queue
\* only until they are paired.
NextTtt ==
  \/ matches = <<>> /\ Join(MainConns, QueueShuffles, MaxMatches, MaxGames)
  \/ activeGames = {} /\ Ready(MainConns, MaxGames)
  \/ \E c \in MainConns, p \in Positions, now \in ClockVals :
       GameAction(c, Position(p), now) /\ games' # games
  \/ \E g \in 1..Len(games) : CountdownTick(g)
  \/ \E g \in 1..Len(games) : BackupTimeout(g)
  \/ \E g \in 1..Len(games) : DisposeTimeout(g)

SpecTtt == Init /\ [][NextTtt]_vars

\* Two clients whose second game is rock-paper-scissors: the first game ends
\* and is disposed of, then every pair of choices is played in every round.
\* The clients ready up only while no game of theirs is in the active set,
\* and join the queue only until they are paired.
RpsShuffles == {<<"rock-paper-scissors", "tic-tac-toe", "whack-a-mole">>}
NextRps ==
  \/ matches = <<>> /\ Join(MainConns, RpsShuffles, MaxMatches, MaxGames)
  \/ activeGames = {} /\ Ready(MainConns, MaxGames)
  \/ \E c \in MainConns, ch \in Choices, now \in ClockVals :
       GameAction(c, Choice(ch), now) /\ games' # games
  \/ \E g \in 1..Len(games) : CountdownTick(g)
  \/ \E g \in 1..Len(games) : BackupTimeout(g)
  \/ \E g \in 1..Len(games) : DisposeTimeout(g)
  \/ \E g \in 1..Len(games) : NextRound(g)

SpecRps == Init /\ [][NextRps]_vars

\* mole appearances in a run of the whack-a-mole specification
WamSpawns == 2

\* Two clients whose second game is whack-a-mole: the first game ends and is
\* disposed of, then moles appear at two positions and every position next
\* to them is hit.  The clients ready up only while no game of theirs is in
\* the active set, and join the queue only until they are paired.
WamShuffles == {<<"whack-a-mole", "tic-tac-toe", "rock-paper-scissors">>}
WamSpawnPositions == {0, 1}
WamHitPositions == {0, 1, 2}
NextWam ==
  \/ matches = <<>> /\ Join(MainConns, WamShuffles, MaxMatches, MaxGames)
  \/ activeGames = {} /\ Ready(MainConns, MaxGames)
  \/ \E c \in MainConns, p \in WamHitPositions, now \in ClockVals :
       GameAction(c, Position(p), now) /\ games' # games
  \/ \E g \in 1..Len(games) : CountdownTick(g)
  \/ \E g \in 1..Len(games) : BackupTimeout(g)
  \/ \E g \in 1..Len(games) : DisposeTimeout(g)
  \/ \E g \in 1..Len(games), p \in WamSpawnPositions :
       /\ games[g].game.type = "whack-a-mole" => games[g].game.spawns < WamSpawns
       /\ MoleSpawn(g, p)
  \/ \E g \in 1..Len(games), p \in WamSpawnPositions : MoleHide(g, p)
  \/ \E g \in 1..Len(games) : WamGameTimeout(g)

SpecWam == Init /\ [][NextWam]_vars

\* GameInstances created in a run of the three-game specification
CarryGames == 3

\* Two clients who play a whole Match of reaction-time, whack-a-mole and
\* rock-paper-scissors: one mole comes up and may be hit, and every choice
\* is tried in every round of the third game.  As before the clients ready
\* up only while no game of theirs is in the active set.
CarryShuffles == {<<"whack-a-mole", "rock-paper-scissors", "tic-tac-toe">>}
NextCarry ==
  \/ matches = <<>> /\ Join(MainConns, CarryShuffles, MaxMatches, CarryGames)
  \/ activeGames = {} /\ Ready(MainConns, CarryGames)
  \/ \E c \in MainConns, p \in SpawnPositions, now \in ClockVals :
       GameAction(c, Position(p), now) /\ games' # games
  \/ \E c \in MainConns, ch \in Choices, now \in ClockVals :
       GameAction(c, Choice(ch), now) /\ games' # games
  \/ \E g \in 1..Len(games) : CountdownTick(g)
  \/ \E g \in 1..Len(games) : BackupTimeout(g)
  \/ \E g \in 1..Len(games) : DisposeTimeout(g)
  \/ \E g \in 1..Len(games), p \in SpawnPositions :
       /\ games[g].game.type = "whack-a-mole" => games[g].game.spawns < MaxSpawns
       /\ MoleSpawn(g, p)
  \/ \E g \in 1..Len(games) : WamGameTimeout(g)
  \/ \E g \in 1..Len(games) : NextRound(g)

SpecCarry == Init /\ [][NextCarry]_vars

---------------------------------------------------------------------------
(* Properties *)

\* the positions of out holding event ev sent to connection to
Sent(to, ev) == {i \in 1..Len(out) : out[i].to = to /\ out[i].ev = ev}

\* the GameInstances ever created for Match m
InstancesOf(m) == {g \in 1..Len(games) : games[g].matchId = m}

\* C1: a join-queue by c with a non-empty queue removes the head of the
\* queue, creates exactly one Match seating <<head, c>> and exactly one
\* GameInstance for that Match's first game, and leaves c out of the queue;
\* with an empty queue it appends c and creates no Match and no GameInstance.
C1_JoinQueuePairs ==
  [][\A c \in Conns, sh \in Shuffles :
       JoinQueue(c, sh) =>
         IF Len(waitingQueue) > 0
         THEN /\ waitingQueue' = Tail(waitingQueue)
              /\ c \notin SeqToSet(waitingQueue')
              /\ Len(matches') = Len(matches) + 1
              /\ SubSeq(matches', 1, Len(matches)) = matches
              /\ matches'[Len(matches')].players = <<Head(waitingQueue), c>>
              /\ activeMatches' = activeMatches \cup {Len(matches')}
              /\ Len(games') = Len(games) + 1
              /\ SubSeq(games', 1, Len(games)) = games
              /\ activeGames' = activeGames \cup {Len(games')}
              /\ games'[Len(games')].matchId = Len(matches')
              /\ games'[Len(games')].index = 0
              /\ games'[Len(games')].game.type = matches'[Len(matches')].gameQueue[1]
         ELSE /\ waitingQueue' = Append(waitingQueue, c)
              /\ matches' = matches
              /\ activeMatches' = activeMatches
              /\ games' = games
              /\ activeGames' = activeGames]_vars

\* b has just joined while a was waiting and is paired with a in the
\* second Match, which has its one GameInstance
C1_Witness ==
  /\ Len(matches) = 2
  /\ matches[2].players = <<"a", "b">>
  /\ Sent("b", "game-found") # {}
  /\ waitingQueue = <<>>
  /\ InstancesOf(2) = {2}

\* C2: for every GameInstance the coordinator's endGame runs at most once:
\* game-end is distributed to the players at most once and a cumulative
\* Match score is incremented at most once for it, and no single step emits
\* more than one game-end for an instance to a seat.
C2_ResultAtMostOnce ==
  /\ \A g \in 1..Len(games) :
       /\ games[g].ends <= 1
       /\ games[g].distributed <= 1
       /\ games[g].scored <= 1
       /\ Cardinality({i \in 1..Len(out) : out[i].ev = "game-end" /\ out[i].g = g})
            <= Len(Players(games[g]))
  /\ \A i \in 1..Len(out) :
       out[i].ev = "game-end" => games[out[i].g].distributed = 1

\* a game has ended with a winner while its backup timeout is still pending:
\* the result was distributed and scored once
C2_Witness ==
  \E g \in 1..Len(games) :
    /\ games[g].state = "finished"
    /\ games[g].backup > 0
    /\ games[g].distributed = 1
    /\ games[g].scored = 1
    /\ Sent("a", "game-end") # {}

RECURSIVE SumOver(_, _)
\* the sum of f over the set S of its arguments
SumOver(f, S) ==
  IF S = {} THEN 0
  ELSE LET x == CHOOSE y \in S : TRUE IN f[x] + SumOver(f, S \ {x})

\* the games of Match m that have finished with a winner and no draw
DecisiveGames(m) ==
  {g \in InstancesOf(m) :
     /\ games[g].state = "finished"
     /\ games[g].result.winnerId # NoConn
     /\ ~games[g].result.isDraw}

\* C3: for every Match of the active set the sum of its cumulative scores
\* over its players equals the number of its finished games whose result had
\* a winner and was no draw (so a draw adds to no cumulative score).
C3_ScoreSum ==
  \A m \in activeMatches :
    SumOver(matches[m].matchScores, DOMAIN matches[m].matchScores)
      = Cardinality(DecisiveGames(m))

\* a Match of a and b with one game won and one game drawn
C3_Witness ==
  \E m \in 1..Len(matches) :
    /\ m \in activeMatches
    /\ matches[m].players = <<"a", "b">>
    /\ Cardinality(DecisiveGames(m)) = 1
    /\ \E g \in InstancesOf(m) :
         games[g].state = "finished" /\ games[g].result.isDraw

\* C4: a Match's currentGameIndex changes only in a player-ready step after
\* which every ready flag of the Match is true; it then grows by exactly 1
\* and all flags are reset.  A player-ready of c while the other player's
\* flag is false neither advances the index nor creates a GameInstance.
C4_ReadyBarrier ==
  [][/\ \A m \in 1..Len(matches) :
          matches'[m].currentGameIndex # matches[m].currentGameIndex =>
            \E c \in SeqToSet(matches[m].players) :
              /\ PlayerReady(c)
              /\ playerToMatch[c] = m
              /\ \A id \in SeqToSet(matches[m].players) :
                   id = c \/ matches[m].readyStatus[id]
              /\ matches'[m].currentGameIndex = matches[m].currentGameIndex + 1
              /\ \A id \in SeqToSet(matches[m].players) :
                   ~matches'[m].readyStatus[id]
     /\ \A c \in Conns :
          (/\ PlayerReady(c)
           /\ \E id \in SeqToSet(matches[playerToMatch[c]].players) :
                id # c /\ ~matches[playerToMatch[c]].readyStatus[id])
          => /\ matches'[playerToMatch[c]].currentGameIndex
                  = matches[playerToMatch[c]].currentGameIndex
             /\ Len(games') = Len(games)]_vars

\* both players have readied up after the first game ended: the index is 1,
\* the flags are reset and the second GameInstance exists
C4_Witness ==
  \E m \in 1..Len(matches) :
    /\ matches[m].players = <<"a", "b">>
    /\ matches[m].currentGameIndex = 1
    /\ Sent("a", "both-players-ready") # {}
    /\ \A id \in {"a", "b"} : ~matches[m].readyStatus[id]
    /\ \E g \in InstancesOf(m) : games[g].state = "finished"
    /\ Cardinality(InstancesOf(m)) = 2

\* a Match of two different connections
TwoPlayers(m) == matches[m].players[1] # matches[m].players[2]

\* C5: at every moment at most one GameInstance of a Match (of two different
\* connections) is in state countdown or playing.
C5_Sequential ==
  \A m \in 1..Len(matches) :
    TwoPlayers(m) =>
      Cardinality({g \in InstancesOf(m) :
                     games[g].state \in {"countdown", "playing"}}) <= 1

\* C6: the game sequence of every Match holds 3 pairwise distinct registered
\* game ids; at most 3 GameInstances are ever created for the Match; the
\* i-th of them (counting from 0) was created at currentGameIndex i and runs
\* the game at position i of the sequence.
C6_ThreeGames ==
  \A m \in 1..Len(matches) :
    LET q == matches[m].gameQueue
    IN /\ Len(q) = 3
       /\ \A i \in 1..Len(q) : q[i] \in SeqToSet(RegisteredGames)
       /\ \A i, j \in 1..Len(q) : i # j => q[i] # q[j]
       /\ Cardinality(InstancesOf(m)) <= 3
       /\ matches[m].currentGameIndex <= 3
       /\ \A g \in InstancesOf(m) :
            /\ games[g].index = Cardinality({h \in InstancesOf(m) : h < g})
            /\ games[g].index < Len(q)
            /\ games[g].game.type = q[games[g].index + 1]

\* a and b have readied up after a third game: the tournament is complete
\* with three GameInstances
C6_Witness ==
  \E m \in 1..Len(matches) :
    /\ matches[m].players = <<"a", "b">>
    /\ matches[m].state = "finished"
    /\ m \notin activeMatches
    /\ matches[m].currentGameIndex = 3
    /\ Cardinality(InstancesOf(m)) = 3

\* C7: a rage-quit step of c happens only for a player of an active Match;
\* it removes the Match from the active set and the routing entries of both
\* players in that step, and emits exactly one opponent-rage-quit, to the
\* other player.
C7_RageQuitTeardown ==
  [][\A c \in Conns :
       RageQuit(c) =>
         LET m == playerToMatch[c]
             quits == {i \in 1..Len(out') : out'[i].ev = "opponent-rage-quit"}
         IN /\ m # 0
            /\ m \in activeMatches
            /\ m \notin activeMatches'
            /\ \A id \in SeqToSet(matches[m].players) : playerToMatch'[id] = 0
            /\ \A id \in SeqToSet(matches[m].players) \ {c} :
                 /\ Cardinality(quits) = 1
                 /\ \A i \in quits : out'[i].to = id]_vars

\* a has just rage-quit the Match with b while its game was being played
C7_Witness ==
  \E m \in 1..Len(matches) :
    /\ matches[m].players = <<"a", "b">>
    /\ matches[m].rageQuitBy = "a"
    /\ m \notin activeMatches
    /\ playerToMatch["a"] = 0 /\ playerToMatch["b"] = 0
    /\ Sent("b", "opponent-rage-quit") # {}
    /\ \E g \in InstancesOf(m) : games[g].state = "playing"

\* the events of a game
GameEvents ==
  {"countdown", "game-start", "timer-update", "start-signal", "mole-appears",
   "mole-disappears", "score-update", "round-result", "next-round", "game-end"}

\* C8: once a Match was rage-quit, no game event of any of its
\* GameInstances is emitted to the player who remained.
C8_NoEventsAfterRageQuit ==
  \A i \in 1..Len(out) :
    (out[i].ev \in GameEvents /\ out[i].g # 0) =>
      LET m == games[out[i].g].matchId
      IN matches[m].rageQuitBy = NoConn \/ out[i].to = matches[m].rageQuitBy

\* s is an initial part of t
IsPrefix(s, t) == Len(s) <= Len(t) /\ s = SubSeq(t, 1, Len(s))

\* C9: the countdown values emitted for a GameInstance are 3, 2, 1 in that
\* order, each to every player; the instance starts playing (and game-start
\* is emitted) at most once, and only after all three values; no countdown
\* is emitted for an instance that is playing or finished.
C9_Countdown ==
  /\ \A g \in 1..Len(games) :
       /\ games[g].cdSent # <<>>
       /\ IsPrefix(games[g].cdSent, <<3, 2, 1>>)
       /\ games[g].starts <= 1
       /\ games[g].state = "countdown" => games[g].starts = 0
       /\ games[g].state # "countdown" =>
            games[g].starts = 1 /\ games[g].cdSent = <<3, 2, 1>>
  /\ \A i \in 1..Len(out) :
       /\ out[i].ev = "countdown" =>
            /\ games[out[i].g].state = "countdown"
            /\ out[i].arg = games[out[i].g].cdSent[Len(games[out[i].g].cdSent)]
            /\ \A id \in SeqToSet(Players(games[out[i].g])) :
                 \E j \in Sent(id, "countdown") :
                   out[j].g = out[i].g /\ out[j].arg = out[i].arg
       /\ out[i].ev = "game-start" =>
            /\ games[out[i].g].state = "playing"
            /\ games[out[i].g].starts = 1
            /\ games[out[i].g].cdSent = <<3, 2, 1>>

\* the countdown of a game of a and b has run out: game-start was just sent
C9_Witness ==
  \E g \in 1..Len(games) :
    /\ Players(games[g]) = <<"a", "b">>
    /\ games[g].state = "playing"
    /\ games[g].cdSent = <<3, 2, 1>>
    /\ games[g].starts = 1
    /\ Sent("a", "game-start") # {} /\ Sent("b", "game-start") # {}

\* C10: a disconnect step of c leaves c out of the waiting queue, and for
\* every GameInstance of the active set that seats c (with another
\* connection) the other player is sent opponent-disconnected, the engine's
\* cleanup is invoked and the instance leaves the active set in that step.
\* Only steps from states where every Match has at most one game in
\* countdown or playing are considered.
C10_DisconnectTeardown ==
  [][\A c \in Conns :
       (Disconnect(c) /\ C5_Sequential) =>
         /\ c \notin SeqToSet(waitingQueue')
         /\ \A g \in activeGames :
              (c \in SeqToSet(Players(games[g])) /\ TwoPlayers(games[g].matchId)) =>
                /\ \E i \in 1..Len(out') :
                     /\ out'[i].ev = "opponent-disconnected"
                     /\ out'[i].to = OtherPlayer(Players(games[g]), c)
                /\ games'[g].cleanups = games[g].cleanups + 1
                /\ g \notin activeGames']_vars

\* GameInstance g left the active set before it finished: only a disconnect
\* removes an instance that is not finished (disposal follows endGame)
TornDownByDisconnect(g) ==
  /\ g \notin activeGames
  /\ games[g].state # "finished"
  /\ games[g].cleanups > 0

\* C11: once a GameInstance (of two different connections) was torn down by
\* a disconnect, no step changes its state, emits countdown, game-start,
\* timer-update or game-end for it, or increments a cumulative Match score
\* for it.
C11_CancelledByDisconnect ==
  [][\A g \in 1..Len(games) :
       (TornDownByDisconnect(g) /\ TwoPlayers(games[g].matchId)) =>
         /\ games'[g].state = games[g].state
         /\ games'[g].scored = games[g].scored
         /\ \A i \in 1..Len(out') :
              out'[i].g = g =>
                out'[i].ev \notin {"countdown", "game-start", "timer-update",
                                   "game-end"}]_vars

\* C12: a join-queue of c that pairs c with another connection and fails
\* (matchmaking-error is emitted) leaves the active-match set, the routing
\* entries of the two players and the active-game set as they were, has both
\* players in the waiting queue and sends matchmaking-error to both.
C12_PairingRollback ==
  [][\A c \in Conns, sh \in Shuffles, constructorThrows \in BOOLEAN :
       (/\ JoinQueueCreating(c, sh, constructorThrows)
        /\ Len(waitingQueue) > 0
        /\ Head(waitingQueue) # c
        /\ \E i \in 1..Len(out') : out'[i].ev = "matchmaking-error")
       => LET opponent == Head(waitingQueue)
          IN /\ activeMatches' = activeMatches
             /\ playerToMatch'[c] = playerToMatch[c]
             /\ playerToMatch'[opponent] = playerToMatch[opponent]
             /\ activeGames' = activeGames
             /\ {opponent, c} \subseteq SeqToSet(waitingQueue')
             /\ \A id \in {opponent, c} :
                  \E i \in 1..Len(out') :
                    out'[i].ev = "matchmaking-error" /\ out'[i].to = id]_vars

\* C13: every GameInstance (of two different connections) that reaches
\* finished is eventually disposed: its engine's cleanup has been invoked and
\* it is out of the active-game set.
C13_EventuallyDisposed ==
  \A g \in 1..DisposeGames :
    [](( /\ g <= Len(games)
         /\ games[g].state = "finished"
         /\ TwoPlayers(games[g].matchId) )
       => <>(/\ g <= Len(games)
             /\ g \notin activeGames
             /\ games[g].cleanups > 0))

\* the player-ready of c completes the tournament of its Match
ReadyCompletes(c) ==
  LET matchId == playerToMatch[c]
  IN /\ matchId # 0
     /\ matchId \in activeMatches
     /\ AllReady(ReadyAfter(matches[matchId], c))
     /\ matches[matchId].currentGameIndex + 1 = Len(matches[matchId].gameQueue)

\* C14: a player-ready step that makes every flag true and advances
\* currentGameIndex to the length of the game sequence creates no
\* GameInstance, removes the Match from the active set and removes the
\* routing entries of both players; the Match is never touched again, and
\* while a player of a completed Match has no routing entry, no player-ready
\* and no rage-quit of that player takes effect.
C14_TournamentCompletion ==
  /\ [][/\ \A c \in Conns :
             (PlayerReady(c) /\ ReadyCompletes(c)) =>
               LET m == playerToMatch[c]
               IN /\ games' = games
                  /\ activeGames' = activeGames
                  /\ matches'[m].currentGameIndex = Len(matches[m].gameQueue)
                  /\ activeMatches' = activeMatches \ {m}
                  /\ \A id \in SeqToSet(matches[m].players) : playerToMatch'[id] = 0
        /\ \A m \in 1..Len(matches) :
             matches[m].currentGameIndex = Len(matches[m].gameQueue) =>
               /\ matches'[m] = matches[m]
               /\ m \notin activeMatches']_vars
  /\ [](\A m \in 1..Len(matches) :
          matches[m].currentGameIndex = Len(matches[m].gameQueue) =>
            /\ m \notin activeMatches
            /\ \A c \in SeqToSet(matches[m].players) :
                 /\ playerToMatch[c] # m
                 /\ playerToMatch[c] = 0 =>
                      (~ENABLED PlayerReady(c) /\ ~ENABLED RageQuit(c)))

\* b has just readied up after a, after the third game of their Match: the
\* tournament is complete and both routing entries are gone
C14_Witness ==
  \E m \in 1..Len(matches) :
    /\ matches[m].players = <<"a", "b">>
    /\ matches[m].currentGameIndex = 3
    /\ Cardinality(InstancesOf(m)) = 3
    /\ m \notin activeMatches
    /\ playerToMatch["a"] = 0 /\ playerToMatch["b"] = 0
    /\ Sent("b", "ready-status-update") # {}
    /\ \E i \in Sent("b", "ready-status-update") : out[i].arg.opponentReady

\* C15: a leave-queue step of c changes no Match, no GameInstance and no
\* routing entry; if c is not in the waiting queue the queue is unchanged,
\* otherwise the queue afterwards is the queue without c, the others in
\* their order; applying the removal to the result again changes nothing.
C15_LeaveQueueIdempotent ==
  [][\A c \in Conns :
       LeaveQueue(c) =>
         /\ UNCHANGED <<matches, activeMatches, playerToMatch, games, activeGames>>
         /\ c \notin SeqToSet(waitingQueue) => waitingQueue' = waitingQueue
         /\ c \in SeqToSet(waitingQueue) =>
              waitingQueue' = SeqFilter(waitingQueue, Conns \ {c})
         /\ RemovePlayerFromQueue(waitingQueue', c) = waitingQueue'
         /\ Sent(c, "left-queue")' # {}]_vars

\* b, who is not queued, has just left the queue in which a waits
C15_Witness ==
  /\ waitingQueue = <<"a">>
  /\ Len(out) = 2
  /\ out[1] = Ev("b", "left-queue", 0, 0)
  /\ out[2].to = "a" /\ out[2].ev = "queue-status-update"

\* C16: after a join-queue step of c that creates a Match, neither c nor the
\* connection that was at the head of the queue is in the waiting queue.
C16_PairedLeaveQueue ==
  [][\A c \in Conns, sh \in Shuffles :
       (JoinQueue(c, sh) /\ Len(matches') > Len(matches)) =>
         /\ Len(waitingQueue) > 0
         /\ matches'[Len(matches')].players = <<Head(waitingQueue), c>>
         /\ \A id \in SeqToSet(matches'[Len(matches')].players) :
              id \notin SeqToSet(waitingQueue')]_vars

\* c has just joined while a was waiting: they are paired in the first Match
\* and the queue is empty
C16_Witness ==
  /\ Len(matches) = 1
  /\ matches[1].players = <<"a", "c">>
  /\ Sent("a", "game-found") # {} /\ Sent("c", "game-found") # {}
  /\ "a" \notin SeqToSet(waitingQueue) /\ "c" \notin SeqToSet(waitingQueue)

\* the positions of out holding the game-end events of GameInstance g
GameEnds(g) == {i \in 1..Len(out) : out[i].ev = "game-end" /\ out[i].g = g}

\* C17: the game-end events of one GameInstance (of two different
\* connections) go one to each player; all carry the same draw flag; none
\* has winner and draw both true; exactly one has winner true when the
\* result is no draw and none when it is; and each player's matchScores.you
\* is the other player's matchScores.opponent and is that player's
\* cumulative score of the Match after this game.
C17_PersonalizedResult ==
  \A g \in 1..Len(games) :
    (GameEnds(g) # {} /\ TwoPlayers(games[g].matchId)) =>
      LET ends == GameEnds(g)
          m == games[g].matchId
      IN /\ \A id \in SeqToSet(Players(games[g])) :
              Cardinality({i \in ends : out[i].to = id}) = 1
         /\ \A i, j \in ends : out[i].arg.draw = out[j].arg.draw
         /\ \A i \in ends : ~(out[i].arg.winner /\ out[i].arg.draw)
         /\ \A i \in ends :
              Cardinality({j \in ends : out[j].arg.winner})
                = IF out[i].arg.draw THEN 0 ELSE 1
         /\ \A i, j \in ends :
              out[i].to # out[j].to =>
                /\ out[i].arg.matchScores.you = out[j].arg.matchScores.opponent
                /\ out[i].arg.matchScores.you = matches[m].matchScores[out[i].to]

\* a game of a and b has just ended with b the winner: b is told winner with
\* cumulative score 1 to 0, a is told the reverse
C17_Witness ==
  \E g \in 1..Len(games) :
    /\ Players(games[g]) = <<"a", "b">>
    /\ \E i \in GameEnds(g) :
         /\ out[i].to = "b"
         /\ out[i].arg.winner /\ ~out[i].arg.draw
         /\ out[i].arg.matchScores = [you |-> 1, opponent |-> 0]
    /\ \E i \in GameEnds(g) :
         /\ out[i].to = "a"
         /\ ~out[i].arg.winner /\ ~out[i].arg.draw
         /\ out[i].arg.matchScores = [you |-> 0, opponent |-> 1]

\* the rows, the columns and the two diagonals of the 3x3 grid, 0-based
TttLines ==
  {{3 * r, 3 * r + 1, 3 * r + 2} : r \in 0..2}
    \cup {{c, c + 3, c + 6} : c \in 0..2}
    \cup {{0, 4, 8}, {2, 4, 6}}

\* symbol fills one of the lines of board
HasLine(board, symbol) ==
  \E line \in TttLines : \A k \in line : board[k + 1] = symbol

\* the tic-tac-toe GameInstances of two different connections
TttGames ==
  {g \in 1..Len(games) :
     games[g].game.type = "tic-tac-toe" /\ TwoPlayers(games[g].matchId)}

\* C18: on every board the tic-tac-toe engine reaches, checkGameEnd returns
\* a winner exactly if a row, column or diagonal holds three equal symbols,
\* and the winner is the owner of that symbol, the player who moved last; it
\* returns a draw exactly if 9 moves were made and there is no such line;
\* otherwise it returns null.  The result the coordinator records for a game
\* ended by a move is that result.
C18_TttEndDetection ==
  \A g \in TttGames :
    LET e == games[g].game
        board == e.gameData.board
        players == Players(games[g])
        r == TttCheckGameEnd(e, players)
        won == \E symbol \in SeqToSet(PlayerSymbols) : HasLine(board, symbol)
        lastSeat == (1 - e.gameData.currentPlayer) + 1
    IN /\ Cardinality({k \in 1..9 : board[k] # Empty}) = e.gameData.moves
       /\ (~r.null /\ ~r.isDraw) <=> won
       /\ won => /\ r.winnerId = players[lastSeat]
                 /\ HasLine(board, PlayerSymbols[lastSeat])
                 /\ ~HasLine(board, PlayerSymbols[3 - lastSeat])
                 /\ r.scores = [id \in SeqToSet(players) |->
                                  IF id = players[lastSeat] THEN 1 ELSE 0]
       /\ (~r.null /\ r.isDraw) <=> (e.gameData.moves = 9 /\ ~won)
       /\ r.null <=> (e.gameData.moves < 9 /\ ~won)
       /\ (~r.null /\ games[g].state = "finished") => games[g].result = r

\* the ninth move has just completed a line: a wins, and it is no draw
C18_Witness ==
  \E g \in TttGames :
    /\ Players(games[g]) = <<"a", "b">>
    /\ games[g].game.gameData.moves = 9
    /\ HasLine(games[g].game.gameData.board, "X")
    /\ games[g].state = "finished"
    /\ games[g].result.winnerId = "a"
    /\ ~games[g].result.isDraw
    /\ Sent("a", "game-end") # {}

\* what a client may send as a tic-tac-toe move: every cell, the indices
\* next to the grid, and actions that carry no position
TttInputs == {Position(p) : p \in -1..9} \cup {Click, Choice("rock")}

\* the move of playerId is legal on engine e
TttLegal(e, players, playerId, action) ==
  /\ action.kind = "position"
  /\ action.position \in 0..8
  /\ e.gameData.board[action.position + 1] = Empty
  /\ players[e.gameData.currentPlayer + 1] = playerId

\* C19: on every state the tic-tac-toe engine reaches and for every sender
\* and every input, handlePlayerAction applies the move if the sender is the
\* player whose turn it is, the index is in 0..8 and the cell is empty: it
\* then writes the sender's symbol to that cell only, passes the turn and
\* counts the move; in every other case it leaves the board, the turn and
\* the move counter unchanged and emits nothing.  No step changes a board in
\* another way, and game-update is emitted only in a step that applies a
\* move.
C19_TttMoveLegality ==
  /\ [](\A g \in TttGames, playerId \in Conns, action \in TttInputs :
          LET e == games[g].game
              players == Players(games[g])
              r == TttHandlePlayerAction(e, g, players, playerId, action)
          IN IF TttLegal(e, players, playerId, action)
             THEN /\ r.game.gameData.board =
                       [e.gameData.board EXCEPT ![action.position + 1] =
                          PlayerSymbols[e.gameData.currentPlayer + 1]]
                  /\ r.game.gameData.currentPlayer = 1 - e.gameData.currentPlayer
                  /\ r.game.gameData.moves = e.gameData.moves + 1
                  /\ r.out = EmitToPlayers(players, "game-update", g,
                                           1 - e.gameData.currentPlayer)
             ELSE /\ r.game = e
                  /\ r.out = <<>>)
  /\ [][\A g \in TttGames :
          LET old == games[g].game.gameData
              new == games'[g].game.gameData
              updated == \E i \in 1..Len(out') :
                           out'[i].ev = "game-update" /\ out'[i].g = g
          IN /\ updated <=> new # old
             /\ new # old =>
                  \E c \in SeqToSet(Players(games[g])), p \in Positions :
                    /\ TttLegal(games[g].game, Players(games[g]), c, Position(p))
                    /\ new = [old EXCEPT
                                !.board[p + 1] = PlayerSymbols[old.currentPlayer + 1],
                                !.currentPlayer = 1 - @,
                                !.moves = @ + 1]]_vars

\* a has just moved to cell 4 and b to cell 0: it is a's turn again, so a move
\* of b, a move to cell 4 and a move to cell 9 are all illegal now
C19_Witness ==
  \E g \in TttGames :
    /\ Players(games[g]) = <<"a", "b">>
    /\ games[g].state = "playing"
    /\ games[g].game.gameData.moves = 2
    /\ games[g].game.gameData.board[5] = "X"
    /\ games[g].game.gameData.board[1] = "O"
    /\ games[g].game.gameData.currentPlayer = 0
    /\ \E i \in Sent("a", "game-update") : out[i].g = g

\* rock beats scissors, scissors beats paper, paper beats rock
Beats == {<<"rock", "scissors">>, <<"scissors", "paper">>, <<"paper", "rock">>}

\* C20: for all 9 pairs of choices determineRoundWinner(a, a) is a draw
\* and, for a # b, determineRoundWinner(a, b) names seat 0 if a beats b and
\* seat 1 if b beats a, which is the seat opposite to the one
\* determineRoundWinner(b, a) names; and every round-result the engine emits
\* tells a player "draw" for equal choices, "you" if the player's choice
\* beats the opponent's and "opponent" otherwise.
C20_RoundResolution ==
  /\ \A a, b \in Choices :
       /\ DetermineRoundWinner(a, a) = -1
       /\ a # b =>
            /\ DetermineRoundWinner(a, b) \in {0, 1}
            /\ DetermineRoundWinner(a, b) = 1 - DetermineRoundWinner(b, a)
            /\ DetermineRoundWinner(a, b) = 0 <=> <<a, b>> \in Beats
            /\ DetermineRoundWinner(a, b) = 1 <=> <<b, a>> \in Beats
  /\ \A i \in 1..Len(out) :
       out[i].ev = "round-result" =>
         LET mine == out[i].arg.yourChoice
             theirs == out[i].arg.opponentChoice
         IN /\ mine \in Choices /\ theirs \in Choices
            /\ out[i].arg.winner =
                 IF mine = theirs THEN "draw"
                 ELSE IF <<mine, theirs>> \in Beats THEN "you" ELSE "opponent"

\* a round of a and b has just been resolved with rock against paper: a is
\* told that the opponent won, b is told "you"
C20_Witness ==
  /\ \E i \in Sent("a", "round-result") :
       /\ out[i].arg.yourChoice = "rock"
       /\ out[i].arg.opponentChoice = "paper"
       /\ out[i].arg.winner = "opponent"
  /\ \E i \in Sent("b", "round-result") :
       /\ out[i].arg.yourChoice = "paper"
       /\ out[i].arg.opponentChoice = "rock"
       /\ out[i].arg.winner = "you"

\* the rock-paper-scissors GameInstances of two different connections
RpsGames ==
  {g \in 1..Len(games) :
     games[g].game.type = "rock-paper-scissors" /\ TwoPlayers(games[g].matchId)}

\* C21: the result of every finished rock-paper-scissors game names as
\* winner the player with the higher round-score, and is a draw only if the
\* two round-scores are equal.
C21_RpsOverallResult ==
  \A g \in RpsGames :
    games[g].state = "finished" =>
      LET s == games[g].game.gameData.scores
          players == Players(games[g])
          r == games[g].result
      IN /\ s[1] > s[2] => (r.winnerId = players[1] /\ ~r.isDraw)
         /\ s[2] > s[1] => (r.winnerId = players[2] /\ ~r.isDraw)
         /\ r.isDraw => s[1] = s[2]

\* the positions of out' holding the round-result events of GameInstance g
RoundResultsNext(g) ==
  {i \in 1..Len(out') : out'[i].ev = "round-result" /\ out'[i].g = g}

\* C22: a step in which c's choice ch resolves a round of a game (of two
\* different connections) sends round-result once to each player; c sees ch
\* as yourChoice and the other player's recorded choice as opponentChoice,
\* and the other player sees the reverse; the views are "you" and
\* "opponent", or "draw" twice; the round-score of the player who sees "you"
\* grows by 1 and no other round-score changes; both events carry the new
\* round-scores.
C22_RoundResult ==
  [][\A g \in RpsGames, c \in Conns, ch \in Choices, now \in ClockVals :
       (GameAction(c, Choice(ch), now) /\ RoundResultsNext(g) # {}) =>
         LET players == Players(games[g])
             other == OtherPlayer(players, c)
             seat(id) == FindIndex(players, id) + 1
             old == games[g].game.gameData
             new == games'[g].game.gameData
             evOf(id) == out'[CHOOSE i \in RoundResultsNext(g) : out'[i].to = id].arg
         IN /\ \A id \in {c, other} :
                 Cardinality({i \in RoundResultsNext(g) : out'[i].to = id}) = 1
            /\ Cardinality(RoundResultsNext(g)) = 2
            /\ evOf(c).yourChoice = ch
            /\ evOf(c).opponentChoice = old.choices[seat(other)]
            /\ evOf(other).yourChoice = old.choices[seat(other)]
            /\ evOf(other).opponentChoice = ch
            /\ <<evOf(c).winner, evOf(other).winner>>
                 \in {<<"you", "opponent">>, <<"opponent", "you">>, <<"draw", "draw">>}
            /\ \A id \in {c, other} :
                 /\ new.scores[seat(id)] =
                      old.scores[seat(id)] + (IF evOf(id).winner = "you" THEN 1 ELSE 0)
                 /\ evOf(id).scores = new.scores
                 /\ evOf(id).round = old.rounds + 1]_vars

\* the first round of a and b has just been resolved with rock against
\* scissors: a is told "you", b "opponent", and the round-scores are 1 to 0
C22_Witness ==
  \E g \in RpsGames :
    /\ Players(games[g]) = <<"a", "b">>
    /\ games[g].game.gameData.rounds = 1
    /\ games[g].game.gameData.scores = <<1, 0>>
    /\ \E i \in Sent("a", "round-result") :
         /\ out[i].arg.yourChoice = "rock"
         /\ out[i].arg.opponentChoice = "scissors"
         /\ out[i].arg.winner = "you"
         /\ out[i].arg.scores = <<1, 0>>
    /\ \E i \in Sent("b", "round-result") :
         /\ out[i].arg.yourChoice = "scissors"
         /\ out[i].arg.winner = "opponent"
         /\ out[i].arg.scores = <<1, 0>>

\* what a client may send as a rock-paper-scissors choice: the three
\* choices, a choice outside them, and actions that carry no choice
RpsInputs ==
  {Choice(ch) : ch \in Choices} \cup {Choice("lizard"), Click, Position(0)}

\* C23: in every state the rock-paper-scissors engine reaches at most one
\* seat has a recorded choice.  For every player and every input,
\* handlePlayerAction changes nothing and emits nothing if the input is no
\* choice of rock, paper or scissors or the player's choice of this round is
\* already recorded; otherwise it records the choice, and exactly if the
\* other seat's choice is recorded too it resolves the round (round-result
\* is emitted, the choices are cleared, the round counter grows by 1) and
\* the engine is finished exactly if that was the third round.  In the steps
\* of the program the round counter only grows by 1, and the step that
\* makes it 3 finishes the GameInstance and emits game-end.
C23_RpsSubmissions ==
  /\ [](\A g \in RpsGames :
          /\ \E i \in 1..2 : games[g].game.gameData.choices[i] = NoChoice
          /\ games[g].game.gameData.rounds <= MaxRounds
          /\ games[g].state = "playing" =>
               \A playerId \in SeqToSet(Players(games[g])), action \in RpsInputs :
                 LET e == games[g].game
                     players == Players(games[g])
                     score == matches[games[g].matchId].score
                     seat == FindIndex(players, playerId) + 1
                     r == RpsHandlePlayerAction(e, g, players, score, playerId, action)
                     valid == action.kind = "choice"
                              /\ action.choice \in {"rock", "paper", "scissors"}
                 IN IF ~valid \/ e.gameData.choices[seat] # NoChoice
                    THEN r.game = e /\ r.out = <<>> /\ r.score = score
                    ELSE IF e.gameData.choices[3 - seat] = NoChoice
                    THEN /\ r.game = [e EXCEPT !.gameData.choices[seat] = action.choice]
                         /\ r.out = <<>>
                    ELSE /\ r.game.gameData.choices = <<NoChoice, NoChoice>>
                         /\ r.game.gameData.rounds = e.gameData.rounds + 1
                         /\ \E i \in 1..Len(r.out) : r.out[i].ev = "round-result"
                         /\ r.game.state = "finished"
                              <=> e.gameData.rounds + 1 = MaxRounds)
  /\ [][\A g \in RpsGames :
          LET old == games[g].game.gameData
              new == games'[g].game.gameData
          IN /\ new.rounds \in {old.rounds, old.rounds + 1}
             /\ new.rounds = old.rounds + 1 =>
                  /\ new.choices = <<NoChoice, NoChoice>>
                  /\ \E i \in 1..2 : old.choices[i] # NoChoice
             /\ (new.rounds = MaxRounds /\ old.rounds # MaxRounds) =>
                  /\ games'[g].state = "finished"
                  /\ games'[g].game.state = "finished"
                  /\ \E i \in 1..Len(out') : out'[i].ev = "game-end" /\ out'[i].g = g]_vars

\* in the second round a has chosen rock and b has not chosen yet: a further
\* choice of a is ignored now
C23_Witness ==
  \E g \in RpsGames :
    /\ Players(games[g]) = <<"a", "b">>
    /\ games[g].state = "playing"
    /\ games[g].game.gameData.rounds = 1
    /\ games[g].game.gameData.choices = <<"rock", NoChoice>>


\* the whack-a-mole games of two different connections
WamGames ==
  {g \in 1..Len(games) :
     games[g].game.type = "whack-a-mole" /\ TwoPlayers(games[g].matchId)}

\* what a client may send to a whack-a-mole game
WamInputs == {Position(p) : p \in -1..9} \cup {Click, Choice("rock")}

\* C24: on every state the whack-a-mole engine reaches and for every seated
\* sender and every input, handlePlayerAction counts a hit exactly if the
\* input is a position at which a mole is up: it then adds 1 to the sender's
\* score and to no other, takes that mole down and emits score-update to
\* both players; for every other input it changes nothing and emits
\* nothing.  No step changes a score in another way, and score-update is
\* emitted only in a step that counts a hit.
C24_WamHits ==
  /\ [](\A g \in WamGames :
          \A playerId \in SeqToSet(Players(games[g])), action \in WamInputs :
            LET e == games[g].game
                players == Players(games[g])
                score == matches[games[g].matchId].score
                seat == FindIndex(players, playerId) + 1
                r == WamHandlePlayerAction(e, g, players, score, playerId, action)
            IN IF action.kind = "position" /\ action.position \in e.gameData.moles
               THEN /\ r.game.gameData.scores =
                         [e.gameData.scores EXCEPT ![seat] = @ + 1]
                    /\ r.game.gameData.moles = e.gameData.moles \ {action.position}
                    /\ action.position # r.game.gameData.activeMole
                    /\ \A c \in SeqToSet(players) :
                         \E i \in 1..Len(r.out) :
                           /\ r.out[i] = Ev(c, "score-update", g, r.game.gameData.scores)
               ELSE /\ r.game = e
                    /\ r.score = score
                    /\ r.out = <<>>)
  /\ [][\A g \in WamGames :
          LET old == games[g].game.gameData
              new == games'[g].game.gameData
              updated == \E i \in 1..Len(out') :
                           out'[i].ev = "score-update" /\ out'[i].g = g
          IN /\ updated <=> new.scores # old.scores
             /\ new.scores # old.scores =>
                  \E seat \in 1..2, p \in old.moles :
                    /\ new.scores = [old.scores EXCEPT ![seat] = @ + 1]
                    /\ new.moles = old.moles \ {p}]_vars

\* a mole came up at position 1 and b hit it: b has one point, a none, the
\* mole is down and both players got the score-update
C24_Witness ==
  \E g \in WamGames :
    /\ Players(games[g]) = <<"a", "b">>
    /\ games[g].game.gameData.scores = <<0, 1>>
    /\ games[g].game.gameData.moles = {}
    /\ \E i \in Sent("a", "score-update") : out[i].g = g /\ out[i].arg = <<0, 1>>
    /\ \E i \in Sent("b", "mole-hit") : out[i].g = g /\ out[i].arg = 1


\* the reaction-time games of two different connections
ReactionGames ==
  {g \in 1..Len(games) :
     games[g].game.type = "reaction-time" /\ TwoPlayers(games[g].matchId)}

\* the moments at which the only click of a game may have come
LoneClickTimes == 0..3

\* C25: the result of every ended reaction-time game with exactly one
\* recorded click names the clicker as winner, is not a draw and scores 1
\* for the clicker and 0 for the other player, and checkGameEnd returns that
\* same result whatever the time of the click; the result of every ended
\* game with no recorded click is a draw without a winner that scores 0 for
\* both players.
C25_FewerThanTwoClicks ==
  \A g \in ReactionGames :
    LET e == games[g].game
        players == Players(games[g])
        clicked == ClickedPlayers(e)
        wins(id) == Result(id, FALSE, [p \in SeqToSet(players) |->
                                         IF p = id THEN 1 ELSE 0])
        nobody == Result(NoConn, TRUE, [p \in SeqToSet(players) |-> 0])
    IN /\ Len(clicked) = 1 =>
            /\ games[g].ends > 0 => games[g].result = wins(clicked[1])
            /\ \A t \in LoneClickTimes :
                 ReactionCheckGameEnd(
                   [e EXCEPT !.gameData.playerClicks = <<<<clicked[1], t>>>>],
                   players) = wins(clicked[1])
       /\ Len(clicked) = 0 =>
            /\ games[g].ends > 0 => games[g].result = nobody
            /\ ReactionCheckGameEnd(e, players) = nobody

\* only b clicked after the signal and the game has ended: both players are
\* told the result, which names b
C25_Witness ==
  \E g \in ReactionGames :
    /\ Players(games[g]) = <<"a", "b">>
    /\ ClickedPlayers(games[g].game) = <<"b">>
    /\ games[g].state = "finished"
    /\ games[g].result.winnerId = "b"
    /\ GameEnds(g) # {}


\* C26: on every state the reaction-time engine reaches, for every seated
\* sender and every click time, handlePlayerAction changes nothing and emits
\* nothing if the start signal has not fired or the sender's click is
\* already recorded, and otherwise records that one click after the ones
\* recorded before.  No step changes the recorded clicks in another way or
\* takes the signal back, and start-signal is emitted only by the step that
\* sets the signal, in a game whose engine is playing and whose signal was
\* not set before: at most once per game.
C26_ClickAcceptance ==
  /\ [](\A g \in ReactionGames :
          \A playerId \in SeqToSet(Players(games[g])), now \in ClockVals :
            LET e == games[g].game
                players == Players(games[g])
                r == ReactionHandlePlayerAction(e, g, players, playerId, now)
            IN IF \/ ~e.gameData.startSignal
                  \/ playerId \in SeqToSet(ClickedPlayers(e))
               THEN r.game = e /\ r.out = <<>>
               ELSE /\ r.game.gameData.playerClicks =
                         Append(e.gameData.playerClicks, <<playerId, now>>)
                    /\ r.game.gameData.startSignal)
  /\ [][\A g \in ReactionGames :
          LET old == games[g].game
              new == games'[g].game
              signalled == \E i \in 1..Len(out') :
                             out'[i].ev = "start-signal" /\ out'[i].g = g
          IN /\ old.gameData.startSignal => new.gameData.startSignal
             /\ signalled <=> (~old.gameData.startSignal /\ new.gameData.startSignal)
             /\ signalled => old.state = "playing" /\ new.state = "playing"
             /\ new.gameData.playerClicks # old.gameData.playerClicks =>
                  /\ old.gameData.startSignal
                  /\ \E c \in SeqToSet(Players(games[g])), now \in ClockVals :
                       /\ c \notin SeqToSet(ClickedPlayers(old))
                       /\ new.gameData.playerClicks =
                            Append(old.gameData.playerClicks, <<c, now>>)]_vars

\* the signal has fired, b clicked and then a: each has one recorded click,
\* and a further click of either is ignored
C26_Witness ==
  \E g \in ReactionGames :
    /\ Players(games[g]) = <<"a", "b">>
    /\ games[g].game.gameData.startSignal
    /\ ClickedPlayers(games[g].game) = <<"b", "a">>
    /\ \E i \in Sent("b", "player-clicked") : out[i].g = g /\ out[i].arg = "a"


\* the ids and player lists createGame may be called with
AskedGameIds == SeqToSet(RegisteredGames) \cup {"chess", ""}
AskedPlayers == UNION {[1..n -> Conns] : n \in 0..3}

\* C27: for every id and every list of 0 to 3 players createGame returns an
\* engine exactly if the id is registered and the list has at least
\* minPlayers and at most maxPlayers entries, which is 2 for each of the four
\* games, and the engine is a new one of the class registered under that id;
\* in every other case it returns null.  No GameInstance ever holds a null
\* engine: a step that reports a matchmaking error adds no GameInstance and
\* leaves the active set as it was, and every other step that creates a
\* Match adds exactly one GameInstance, with an engine of the Match's first
\* game, to the active set.
C27_CreateGame ==
  /\ [](/\ \A gameId \in AskedGameIds, players \in AskedPlayers :
             LET game == CreateGame(gameId, players)
                 known == gameId \in SeqToSet(RegisteredGames)
             IN /\ known => MinPlayers(gameId) = 2 /\ MaxPlayers(gameId) = 2
                /\ IF known /\ Len(players) = 2
                   THEN game = NewEngine(gameId) /\ game.type = gameId
                   ELSE game = NullGame
        /\ \A g \in 1..Len(games) : games[g].game # NullGame)
  /\ [][LET failed == \E i \in 1..Len(out') : out'[i].ev = "matchmaking-error"
        IN /\ failed => games' = games /\ activeGames' = activeGames
           /\ Len(matches') > Len(matches) =>
                \/ failed
                \/ /\ Len(games') = Len(games) + 1
                   /\ activeGames' = activeGames \cup {Len(games')}
                   /\ games'[Len(games')].game.type =
                        matches'[Len(matches')].gameQueue[1]]_vars

\* b joined while a was waiting and the engine could not be created: both
\* got matchmaking-error and there is no GameInstance
C27_Witness ==
  /\ games = <<>>
  /\ activeGames = {}
  /\ Len(matches) = 1
  /\ Sent("a", "matchmaking-error") # {}
  /\ Sent("b", "matchmaking-error") # {}


\* the counts getRandomUniqueGameIds is asked for
AskedCounts == 1..6

\* C28: for every outcome of the shuffle, getRandomUniqueGameIds(count)
\* returns for a count from 1 to the number of registered games exactly
\* count registered ids, no two of them equal and the first of them
\* "reaction-time", and for a larger count raises an error and returns
\* nothing; the game queue of every Match is such a list of GamesPerMatch
\* ids.
C28_UniqueGameIds ==
  /\ \A count \in AskedCounts, shuffledOthers \in Shuffles :
       LET r == GetRandomUniqueGameIds(count, shuffledOthers)
       IN IF count <= Len(RegisteredGames)
          THEN /\ ~r.error
               /\ Len(r.ids) = count
               /\ r.ids[1] = "reaction-time"
               /\ \A i \in 1..count : r.ids[i] \in SeqToSet(RegisteredGames)
               /\ \A i, j \in 1..count : i # j => r.ids[i] # r.ids[j]
          ELSE r.error /\ r.ids = <<>>
  /\ \A m \in 1..Len(matches) :
       LET q == matches[m].gameQueue
       IN /\ Len(q) = GamesPerMatch
          /\ q[1] = "reaction-time"
          /\ \A i \in 1..Len(q) : q[i] \in SeqToSet(RegisteredGames)
          /\ \A i, j \in 1..Len(q) : i # j => q[i] # q[j]

\* a Match whose three games were picked with whack-a-mole shuffled to the
\* front of the other games
C28_Witness ==
  \E m \in 1..Len(matches) :
    matches[m].gameQueue = <<"reaction-time", "whack-a-mole", "tic-tac-toe">>


\* the events only a running game has reason to emit
GameSpecificEvents ==
  {"next-round", "mole-appears", "mole-disappears", "start-signal", "timer-update"}

\* C29: no step taken while a GameInstance is finished emits next-round,
\* mole-appears, mole-disappears, start-signal or timer-update for that
\* GameInstance.
C29_NoEventAfterFinish ==
  [][\A g \in 1..Len(games) :
       games[g].state = "finished" =>
         \A i \in 1..Len(out') :
           out'[i].g = g => out'[i].ev \notin GameSpecificEvents]_vars


\* g is the GameInstance of the current game of c's Match, and is playing
PlayingCurrentGame(c, g) ==
  /\ g \in activeGames
  /\ games[g].state = "playing"
  /\ games[g].matchId = playerToMatch[c]
  /\ games[g].matchId \in activeMatches
  /\ games[g].index = matches[games[g].matchId].currentGameIndex
  /\ TwoPlayers(games[g].matchId)

\* every other GameInstance of the active set that seats c is an earlier one
\* that has finished
OthersFinished(c, g) ==
  \A h \in activeGames \ {g} :
    c \in SeqToSet(Players(games[h])) => h < g /\ games[h].state = "finished"

\* C30: whenever the GameInstance of the current game of a player's Match is
\* playing and the other GameInstances of the player in the active set are
\* earlier, finished ones, the playing one is the GameInstance that
\* findGameInstance returns for that player, the one the game-action handler
\* passes the player's action to.
C30_ActionRouting ==
  \A c \in Conns, g \in 1..Len(games) :
    PlayingCurrentGame(c, g) /\ OthersFinished(c, g) => FindGameInstance(c) = g


\* C31: as long as every Match created so far seats two different
\* connections, the connection-to-match index maps every player of every
\* Match of the active-match set to that Match, and every entry of the index
\* names a Match of the active-match set that seats the connection.
C31_RoutingConsistency ==
  (\A m \in 1..Len(matches) : TwoPlayers(m)) =>
    /\ \A m \in activeMatches :
         \A p \in SeqToSet(matches[m].players) : playerToMatch[p] = m
    /\ \A c \in Conns :
         playerToMatch[c] # 0 =>
           /\ playerToMatch[c] \in activeMatches
           /\ c \in SeqToSet(matches[playerToMatch[c]].players)


\* the seats of connection c in the Matches of the active-match set
SeatsOf(c) ==
  {<<m, i>> \in activeMatches \X {1, 2} : matches[m].players[i] = c}

\* C32: at every moment every connection holds at most one seat in the
\* Matches of the active-match set: no Match seats one connection twice and
\* no connection is a player of two Matches.
C32_OneSeat ==
  \A c \in Conns : Cardinality(SeatsOf(c)) <= 1


\* C33: between any two handler or timer executions the engine of every
\* reaction-time GameInstance of two different connections is finished
\* exactly if the GameInstance is finished.
C33_EngineAndInstanceAgree ==
  \A g \in ReactionGames :
    games[g].game.state = "finished" <=> games[g].state = "finished"


\* the engine of GameInstance g reports no terminal condition: a
\* tic-tac-toe board without a completed line and with fewer than 9 moves,
\* or rock-paper-scissors with fewer than MaxRounds resolved rounds
NoTerminalCondition(g) ==
  LET e == games[g].game
  IN \/ /\ e.type = "tic-tac-toe"
        /\ ~HasLine(e.gameData.board, "X") /\ ~HasLine(e.gameData.board, "O")
        /\ e.gameData.moves < 9
     \/ /\ e.type = "rock-paper-scissors"
        /\ e.gameData.rounds < MaxRounds

\* the duration timer or the backup timeout ends the playing GameInstance g
EndsByTimeout(g) ==
  /\ TimerTick(g) \/ BackupTimeout(g)
  /\ games[g].state = "playing"
  /\ games'[g].state = "finished"

BothClickTimes == 0..2

\* C35: for every reaction-time game in which both players have a recorded
\* click, and whatever the two recorded times are, checkGameEnd returns a
\* result that is no draw, scores 1 for the winner and 0 for the other
\* player, and names the player with the lower recorded time, or the player
\* whose click was recorded first if the times are equal; so the player
\* recorded first wins whenever the second time is not the lower one.  The
\* result the coordinator records for such a game is that result.
C35_BothClicked ==
  \A g \in ReactionGames :
    LET e == games[g].game
        players == Players(games[g])
        pc == e.gameData.playerClicks
        wins(id) == Result(id, FALSE, [p \in SeqToSet(players) |->
                                         IF p = id THEN 1 ELSE 0])
    IN Len(pc) = 2 =>
         /\ \A t1, t2 \in BothClickTimes :
              ReactionCheckGameEnd(
                [e EXCEPT !.gameData.playerClicks =
                            <<<<pc[1][1], t1>>, <<pc[2][1], t2>>>>],
                players) = wins(IF t2 < t1 THEN pc[2][1] ELSE pc[1][1])
         /\ games[g].ends > 0 =>
              games[g].result = wins(IF pc[2][2] < pc[1][2] THEN pc[2][1]
                                     ELSE pc[1][1])

\* b clicked, then a, and the game has ended: the result names b, whose
\* click was recorded first
C35_Witness ==
  \E g \in ReactionGames :
    /\ Players(games[g]) = <<"a", "b">>
    /\ ClickedPlayers(games[g].game) = <<"b", "a">>
    /\ games[g].state = "finished"
    /\ games[g].result.winnerId = "b"
    /\ \E i \in GameEnds(g) : out[i].to = "b" /\ out[i].arg.winner


\* C36: with every pending timer firing, every GameInstance, which is
\* created in its countdown, is playing at some later moment, and every
\* playing GameInstance is finished at some later moment, whatever the clients send; the step that
\* finishes a GameInstance of two different connections that are both
\* still connected and whose Match still exists sends each of the two players one game-end for it, and game-end
\* is sent for it only once.
C36_GameLiveness ==
  /\ \A g \in 1..DisposeGames :
       /\ []((g <= Len(games) /\ games[g].state = "countdown")
               => <>(g <= Len(games) /\ games[g].state = "playing"))
       /\ []((g <= Len(games) /\ games[g].state = "playing")
               => <>(g <= Len(games) /\ games[g].state = "finished"))
  /\ [](\A g \in 1..Len(games) : games[g].distributed <= 1)
  /\ [][\A g \in 1..Len(games) :
          (/\ games[g].state # "finished"
           /\ games'[g].state = "finished"
           /\ TwoPlayers(games[g].matchId)
           /\ games[g].matchId \in activeMatches
           /\ \A c \in SeqToSet(Players(games[g])) : connected[c]) =>
            \A c \in SeqToSet(Players(games[g])) :
              Cardinality({i \in 1..Len(out') :
                             /\ out'[i].to = c
                             /\ out'[i].ev = "game-end"
                             /\ out'[i].g = g}) = 1]_vars

\* the game of a and b has gone through countdown and play without a single
\* action and was ended by its timer: both players have their game-end
C36_Witness ==
  \E g \in 1..Len(games) :
    /\ Players(games[g]) = <<"a", "b">>
    /\ games[g].state = "finished"
    /\ games[g].starts = 1
    /\ games[g].game.gameData.playerClicks = <<>>
    /\ games[g].distributed = 1
    /\ \E i \in GameEnds(g) : out[i].to = "a"
    /\ \E i \in GameEnds(g) : out[i].to = "b"


\* C37: the result of every rock-paper-scissors game (of two different
\* connections) that ended with its last round resolved scores 1 for its
\* winner and 0 for its loser, and 0 for both players on a draw, whatever
\* the earlier games of the Match were.
C37_IndependentResults ==
  \A g \in RpsGames :
    (games[g].ends > 0 /\ games[g].game.gameData.rounds >= MaxRounds) =>
      LET r == games[g].result
          players == Players(games[g])
      IN \A p \in SeqToSet(players) :
           r.scores[p] = IF r.winnerId = p THEN 1 ELSE 0


\* the hide timeouts of whack-a-mole game g that have not fired yet
RECURSIVE PendingHides(_, _)
PendingHides(g, p) ==
  IF p < 0 THEN 0 ELSE games[g].game.hideTimers[p] + PendingHides(g, p - 1)

C39_NoStrandedMatch ==
  \A m \in 1..MaxMatches :
    []((/\ m <= Len(matches)
        /\ m \in activeMatches
        /\ TwoPlayers(m)
        /\ \E p \in SeqToSet(matches[m].players) : ~connected[p])
       => <>(/\ m <= Len(matches)
             /\ m \notin activeMatches
             /\ \A p \in SeqToSet(matches[m].players) : playerToMatch[p] # m))

---------------------------------------------------------------------------
\* The number of cells of the board of Tic-Tac-Toe game g that hold symbol.
CellsHolding(g, symbol) ==
  Cardinality({k \in 1..9 : games[g].game.gameData.board[k] = symbol})

AllTttGames == {g \in 1..Len(games) : games[g].game.type = "tic-tac-toe"}

\* C40: in every Tic-Tac-Toe game, after any sequence of move attempts,
\* every cell is empty, X or O; the number of X cells minus the number of
\* O cells is 0 or 1 (seat 0 moves first, as X, and the seats alternate);
\* the move counter equals the number of non-empty cells; the turn
\* indicator equals the move counter modulo 2; and no step changes a cell
\* that is already filled.
C40_TttInvariant ==
  /\ [](\A g \in AllTttGames :
          LET d == games[g].game.gameData
          IN /\ \A k \in 1..9 : d.board[k] \in {Empty, "X", "O"}
             /\ CellsHolding(g, "X") - CellsHolding(g, "O") \in {0, 1}
             /\ d.moves = CellsHolding(g, "X") + CellsHolding(g, "O")
             /\ d.currentPlayer = d.moves % 2
             /\ (d.moves = 0 => d.currentPlayer = 0)
             /\ (d.moves = 1 => CellsHolding(g, "X") = 1))
  /\ [][\A g \in AllTttGames : \A k \in 1..9 :
          games[g].game.gameData.board[k] # Empty =>
            games'[g].game.gameData.board[k] = games[g].game.gameData.board[k]]_vars

\* A game of a and b just after its third move: two X, one O, O to move.
C40_Witness ==
  \E g \in AllTttGames :
    /\ Players(games[g]) = <<"a", "b">>
    /\ games[g].state = "playing"
    /\ games[g].game.gameData.moves = 3
    /\ CellsHolding(g, "X") = 2
    /\ CellsHolding(g, "O") = 1
    /\ games[g].game.gameData.currentPlayer = 1
    /\ \E i \in Sent("b", "game-update") : out[i].g = g /\ out[i].arg = 1

=============================================================================
